---- MODULE Spec2Model ----
(***************************************************************************)
(* A model of the trading engine core (rust_module): the command/event     *)
(* bridge with its per-kind deduplication, the engine command loop, the    *)
(* trade execution pipeline with its parallel broadcast, the pending-tx    *)
(* poller and the pool-log stream, as far as the verified properties need  *)
(* them.                                                                    *)
(***************************************************************************)
EXTENDS Integers, Sequences, FiniteSets, TLC

(***************************************************************************)
(* Bounds of the model.                                                     *)
(***************************************************************************)
\* emit_event calls explored for the gas-price scenario (5,5,5,5,5,6,5)
MaxGasCalls == 7
\* emit_event calls explored with the full event universe
MaxCalls == 3

(***************************************************************************)
(* Option<T>                                                                *)
(***************************************************************************)
None == [some |-> FALSE]
Some(x) == [some |-> TRUE, val |-> x]

\* a String that is plain text (a hash string is HexHash, below)
Text(str) == [text |-> str]

(***************************************************************************)
(* f64::to_bits for the float values the model uses: the upper 16 bits of   *)
(* the IEEE-754 pattern (the lower 48 are zero for these values).           *)
(***************************************************************************)
F64ToBits(x) ==
    CASE x = 0 -> 0          \* 0x0000
      [] x = 1 -> 16368      \* 0x3FF0
      [] x = 2 -> 16384      \* 0x4000
      [] x = 5 -> 16404      \* 0x4014
      [] x = 6 -> 16408      \* 0x4018

(***************************************************************************)
(* EngineEvent: the variants of the event enum, with the payload fields     *)
(* the bridge reads.                                                        *)
(***************************************************************************)
EvEngineReady == [type |-> "EngineReady"]
EvLog(level, message) == [type |-> "Log", level |-> level, message |-> message]
EvBalanceUpdate(wallet, token, wei, symbol) ==
    [type |-> "BalanceUpdate", wallet |-> wallet, token |-> token, wei |-> wei,
     float_val |-> wei, symbol |-> symbol]
EvPoolUpdate(pool, ptype, r0, r1, sqrtp, spot) ==
    [type |-> "PoolUpdate", pool_address |-> pool, pool_type |-> ptype,
     reserve0 |-> r0, reserve1 |-> r1, sqrt_price_x96 |-> sqrtp, spot_price |-> spot]
EvGasPriceUpdate(g) == [type |-> "GasPriceUpdate", gas_price_gwei |-> g]
EvConnectionStatus(connected, message) ==
    [type |-> "ConnectionStatus", connected |-> connected, message |-> message]
EvImpactUpdate(token, amount_in, impact_pct) ==
    [type |-> "ImpactUpdate", token |-> token, amount_in |-> amount_in,
     impact_pct |-> impact_pct]
EvTradeStatus(wallet, action, status, message, tx_hash) ==
    [type |-> "TradeStatus", wallet |-> wallet, action |-> action,
     status |-> status, message |-> message, tx_hash |-> tx_hash]
EvTxSent(tx_hash, wallet, action) ==
    [type |-> "TxSent", tx_hash |-> tx_hash, wallet |-> wallet, action |-> action]
EvTxConfirmed(tx_hash, status) ==
    [type |-> "TxConfirmed", tx_hash |-> tx_hash, status |-> status]
EvPoolDetected(ptype, pool) ==
    [type |-> "PoolDetected", pool_type |-> ptype, address |-> pool]
EvPoolNotFound(token) == [type |-> "PoolNotFound", token |-> token]
EvPnLUpdate(wallet) == [type |-> "PnLUpdate", wallet |-> wallet]
EvAutoFuelError(wallet, reason) ==
    [type |-> "AutoFuelError", wallet |-> wallet, reason |-> reason]

VARIABLES
    BRIDGE_QUEUE,   \* events sent to the consumer and not yet popped
    LAST_BALANCE,   \* Option<String>: wei of the last emitted BalanceUpdate
    LAST_POOL,      \* Option<String>: "r0:r1:spot bits" of the last PoolUpdate
    LAST_GAS,       \* Option<u64>: bits of the last emitted gas price
    LAST_CONN,      \* Option<String>: "connected:message"
    LAST_IMPACT,    \* Option<u64>: bits of the last emitted impact
    calls,          \* history: every event handed to emit_event, with should_send
    popped,         \* history: what pop_from_bridge returned, in order
    lastPop         \* history: the result of the latest pop_from_bridge

bridgeVars == <<BRIDGE_QUEUE, LAST_BALANCE, LAST_POOL, LAST_GAS, LAST_CONN,
                LAST_IMPACT, calls, popped, lastPop>>

VARIABLES
    SHUTDOWN_FLAG,          \* the global shutdown flag
    RPC_POOL,               \* RpcPoolState.nodes: [url, latency, is_private, fails]
    pending_txs,            \* CORE_STATE.pending_txs
    selected_pool_type,     \* CORE_STATE.selected_pool_type: Option<String>
    selected_pool_address,  \* CORE_STATE.selected_pool_address
    selected_pool_liquidity_usd,  \* CORE_STATE.selected_pool_liquidity_usd (whole USD)
    selected_pool_spot_price,     \* CORE_STATE.selected_pool_spot_price
    v2_reserves,            \* CORE_STATE.v2_reserves: pool -> <<reserve0, reserve1>>
    v3_states,              \* CORE_STATE.v3_states: pool -> V3PoolState
    wallet_keys,            \* CORE_STATE.wallet_keys: the wallets that have a key
    router_address,         \* CORE_STATE.router_address
    usd_prices,             \* CORE_STATE.usd_prices: symbol -> price
    nonce_map,              \* CORE_STATE.nonce_map: wallet -> next nonce
    poisoned                \* the CORE_STATE RwLock is poisoned

coreVars == <<pending_txs, selected_pool_type, selected_pool_address,
              selected_pool_liquidity_usd, selected_pool_spot_price, v2_reserves,
              v3_states, wallet_keys, router_address, usd_prices, nonce_map, poisoned>>

VARIABLES
    engine,     \* engine_loop: [pc, init, rpc_checker]
    monitor,    \* the WebSocket supervisor MONITOR_HANDLE points to
    sessions,   \* the child streams of every WebSocket session started
    trades,     \* the run_batch_trade tasks spawned by ExecuteTrade
    txCount,    \* transactions signed so far (the next one's hash)
    epoch,      \* history: Init commands processed
    signedAt,   \* history: hash -> epoch in which the transaction was signed
    bcastLog,   \* history: every parallel_broadcast call of a trade task
    nonceLog,   \* history: [wallet, nonce, kind] of every broadcast that returned a hash
    lastPoll,   \* history: the latest receipt poll and its effect
    lastCmd     \* history: the latest command received and its effect

taskVars == <<engine, monitor, sessions, trades>>
histVars == <<txCount, epoch, signedAt, bcastLog, nonceLog, lastPoll, lastCmd>>

VARIABLES
    TRACKED_WALLETS,         \* the wallets the monitors watch, in Init's order
    wrapped_native_address,  \* CORE_STATE.wrapped_native_address
    fuel_enabled,            \* CORE_STATE.fuel_enabled
    fuel_threshold,          \* CORE_STATE.fuel_threshold (wei)
    fuel_amount,             \* CORE_STATE.fuel_amount (wei)
    fuel_quote_address,      \* CORE_STATE.fuel_quote_address
    auto_fuel_attempts,      \* CORE_STATE.auto_fuel_attempts: wallet -> <<count, last ms>>
    now,                     \* current_timestamp_ms(), in units of ClockUnit ms
    fuelLog,                 \* history: every attempt stamped: [wallet, session, at]
    lockAt                   \* per task: the code path it runs and its position in it

VARIABLES
    PNL_STATE,    \* pnl.rs PNL_STATE: key -> PnlInfo
    PNL_TASKS,    \* pnl.rs PNL_TASKS: key -> the JoinHandle (the worker's index)
    pnl_workers   \* the pnl_worker_task tasks spawned so far

pnlVars == <<PNL_STATE, PNL_TASKS, pnl_workers>>

fuelVars == <<TRACKED_WALLETS, wrapped_native_address, fuel_enabled, fuel_threshold,
              fuel_amount, fuel_quote_address, auto_fuel_attempts, now, fuelLog, lockAt,
              pnlVars>>

\* the tasks whose lock acquisitions are followed, each between two paths
LockTasks == {"engine", "pools", "worker", "checker"}
NoPaths == [t \in LockTasks |-> [path |-> <<>>, pos |-> 0]]

(***************************************************************************)
(* serde_json::to_string of an event: {"type": <variant>, "data": {...}};   *)
(* a unit variant has no "data".                                            *)
(***************************************************************************)
ToJson(e) ==
    IF DOMAIN e = {"type"}
    THEN [type |-> e.type]
    ELSE [type |-> e.type, data |-> [f \in DOMAIN e \ {"type"} |-> e[f]]]

UnwrapOr(o, d) == IF o.some THEN o.val ELSE d

\* the PoolUpdate dedup string "{reserve0}:{reserve1}:{spot_price bits}"
PoolKey(e) ==
    <<UnwrapOr(e.reserve0, 0), UnwrapOr(e.reserve1, 0),
      IF e.spot_price.some THEN F64ToBits(e.spot_price.val) ELSE 0>>

\* the ConnectionStatus dedup string "{connected}:{message}"
ConnKey(e) == <<e.connected, e.message>>

(***************************************************************************)
(* The bridge as one value: the queue, the five dedup caches and the call   *)
(* history.                                                                 *)
(***************************************************************************)
Bridge ==
    [queue |-> BRIDGE_QUEUE, bal |-> LAST_BALANCE, pool |-> LAST_POOL,
     gas |-> LAST_GAS, conn |-> LAST_CONN, impact |-> LAST_IMPACT,
     calls |-> calls]

\* should_send with the GasPriceUpdate arm comparing against the wrong cache
\* (the impact cache), so that a repeated gas price is sent again
should_send_GasWrongCache(b, e) ==
    CASE e.type = "BalanceUpdate"    -> b.bal # Some(e.wei)
      [] e.type = "PoolUpdate"       -> b.pool # Some(PoolKey(e))
      [] e.type = "GasPriceUpdate"   -> b.impact # Some(F64ToBits(e.gas_price_gwei))
      [] e.type = "ConnectionStatus" -> b.conn # Some(ConnKey(e))
      [] e.type = "ImpactUpdate"     -> b.impact # Some(F64ToBits(e.impact_pct))
      [] OTHER                       -> TRUE

\* emit_event's should_send, the match over the event kind
should_send(b, e) ==
    CASE e.type = "BalanceUpdate"    -> b.bal # Some(e.wei)
      [] e.type = "PoolUpdate"       -> b.pool # Some(PoolKey(e))
      [] e.type = "GasPriceUpdate"   -> b.gas # Some(F64ToBits(e.gas_price_gwei))
      [] e.type = "ConnectionStatus" -> b.conn # Some(ConnKey(e))
      [] e.type = "ImpactUpdate"     -> b.impact # Some(F64ToBits(e.impact_pct))
      [] OTHER                       -> TRUE

\* the cache write of the arm that returns true
UpdateCache(b, e) ==
    CASE e.type = "BalanceUpdate"    -> [b EXCEPT !.bal = Some(e.wei)]
      [] e.type = "PoolUpdate"       -> [b EXCEPT !.pool = Some(PoolKey(e))]
      [] e.type = "GasPriceUpdate"   -> [b EXCEPT !.gas = Some(F64ToBits(e.gas_price_gwei))]
      [] e.type = "ConnectionStatus" -> [b EXCEPT !.conn = Some(ConnKey(e))]
      [] e.type = "ImpactUpdate"     -> [b EXCEPT !.impact = Some(F64ToBits(e.impact_pct))]
      [] OTHER                       -> b

\* send_to_python putting the blob at the front of the queue
send_to_python_Front(q, json) == <<json>> \o q

\* transport::send_to_python: the unbounded channel's send
send_to_python(q, json) == Append(q, json)

\* bridge::emit_event
emit_event(b, e) ==
    LET send == should_send(b, e)
        b1 == IF send THEN UpdateCache(b, e) ELSE b
    IN [b1 EXCEPT !.queue = IF send THEN send_to_python(b1.queue, ToJson(e)) ELSE b1.queue,
                  !.calls = Append(b1.calls, [ev |-> e, sent |-> send])]

\* bridge::emit_log (DEBUG_MODE is true: no level is filtered)
emit_log(b, level, message) == emit_event(b, EvLog(level, message))

RECURSIVE EmitAll(_, _)
EmitAll(b, es) ==
    IF es = <<>> THEN b ELSE EmitAll(emit_event(b, Head(es)), Tail(es))

\* the bridge after the calling step emitted the events es, in order
Emits(es) ==
    LET b == EmitAll(Bridge, es) IN
    /\ BRIDGE_QUEUE' = b.queue
    /\ LAST_BALANCE' = b.bal
    /\ LAST_POOL' = b.pool
    /\ LAST_GAS' = b.gas
    /\ LAST_CONN' = b.conn
    /\ LAST_IMPACT' = b.impact
    /\ calls' = b.calls
    /\ UNCHANGED <<popped, lastPop>>

\* the receiver's try_recv: the head of the queue, or nothing
try_recv(q) == IF q = <<>> THEN None ELSE Some(Head(q))

\* bridge::pop_from_bridge
PopFromBridge ==
    /\ lastPop' = [res |-> try_recv(BRIDGE_QUEUE), empty |-> BRIDGE_QUEUE = <<>>]
    /\ popped' = IF BRIDGE_QUEUE = <<>> THEN popped ELSE Append(popped, Head(BRIDGE_QUEUE))
    /\ BRIDGE_QUEUE' = IF BRIDGE_QUEUE = <<>> THEN BRIDGE_QUEUE ELSE Tail(BRIDGE_QUEUE)
    /\ UNCHANGED <<LAST_BALANCE, LAST_POOL, LAST_GAS, LAST_CONN, LAST_IMPACT, calls>>

InitBridge ==
    /\ BRIDGE_QUEUE = <<>>
    /\ LAST_BALANCE = None
    /\ LAST_POOL = None
    /\ LAST_GAS = None
    /\ LAST_CONN = None
    /\ LAST_IMPACT = None
    /\ calls = <<>>
    /\ popped = <<>>
    /\ lastPop = [res |-> None, empty |-> TRUE]

vars == <<bridgeVars, SHUTDOWN_FLAG, RPC_POOL, coreVars, taskVars, histVars, fuelVars>>

engineVars == <<SHUTDOWN_FLAG, RPC_POOL, coreVars, taskVars, histVars, fuelVars>>

(***************************************************************************)
(* HashMap helpers.                                                         *)
(***************************************************************************)
EmptyMap == [k \in {} |-> 0]
MapPut(m, k, v) == [x \in DOMAIN m \cup {k} |-> IF x = k THEN v ELSE m[x]]
MapGet(m, k) == IF k \in DOMAIN m THEN Some(m[k]) ELSE None

(***************************************************************************)
(* The RPC pool (state/network.rs).                                         *)
(***************************************************************************)
\* the latency of a node that was never probed (u128::MAX), above every
\* measured latency of the model
U128_MAX == 1000000
\* get_fastest_node's private-node preference, in microseconds
priority_threshold == 50000
\* a node with this many consecutive failures is no longer eligible
MaxNodeFails == 3

RpcNode(url, latency, is_private, fails) ==
    [url |-> url, latency |-> latency, is_private |-> is_private, fails |-> fails]

saturating_add(a, b) == IF a + b > U128_MAX THEN U128_MAX ELSE a + b

\* a comparator that looks at the latency alone
NodeGreater_LatencyOnly(a, b) == a.latency > b.latency

\* the comparator of get_fastest_node: TRUE when it answers Greater for (a, b)
NodeGreater(a, b) ==
    IF a.is_private /\ ~b.is_private
    THEN ~(a.latency < saturating_add(b.latency, priority_threshold))
    ELSE IF ~a.is_private /\ b.is_private
    THEN b.latency < saturating_add(a.latency, priority_threshold)
    ELSE a.latency > b.latency

RECURSIVE MinBy(_, _)
\* Iterator::min_by: fold from the left, the later element wins only when
\* the comparator answers Greater
MinBy(best, rest) ==
    IF rest = <<>> THEN best
    ELSE MinBy(IF NodeGreater(best, Head(rest)) THEN Head(rest) ELSE best, Tail(rest))

Eligible(nodes) == SelectSeq(nodes, LAMBDA n : n.fails < MaxNodeFails)

get_fastest_node(nodes) ==
    LET el == Eligible(nodes) IN
    IF el = <<>> THEN None ELSE Some(MinBy(Head(el), Tail(el)).url)

RECURSIVE InsertByLatency(_, _)
\* insert n behind every element whose latency is not larger (stable)
InsertByLatency(sorted, n) ==
    IF sorted = <<>> THEN <<n>>
    ELSE IF Head(sorted).latency <= n.latency
         THEN <<Head(sorted)>> \o InsertByLatency(Tail(sorted), n)
         ELSE <<n>> \o sorted

RECURSIVE SortByLatency(_)
\* Vec::sort_by(|a, b| a.latency.cmp(&b.latency)), a stable sort
SortByLatency(nodes) ==
    IF nodes = <<>> THEN <<>>
    ELSE InsertByLatency(SortByLatency(SubSeq(nodes, 1, Len(nodes) - 1)),
                         nodes[Len(nodes)])

Take(s, n) == SubSeq(s, 1, IF Len(s) < n THEN Len(s) ELSE n)

\* get_fastest_pool without its take(limit)
get_fastest_pool_NoLimit(nodes, limit) ==
    LET el == Eligible(SortByLatency(nodes))
    IN [i \in 1..Len(el) |-> el[i].url]

get_fastest_pool(nodes, limit) ==
    LET el == Take(Eligible(SortByLatency(nodes)), limit)
    IN [i \in 1..Len(el) |-> el[i].url]

\* the index of the first node with this url, 0 when there is none
FindNode(nodes, url) ==
    LET is == {i \in 1..Len(nodes) : nodes[i].url = url}
    IN IF is = {} THEN 0 ELSE CHOOSE i \in is : \A j \in is : i <= j

\* update_latency recording the latency but leaving the failure count
update_latency_KeepFails(nodes, url, latency) ==
    LET i == FindNode(nodes, url) IN
    IF i = 0 THEN nodes ELSE [nodes EXCEPT ![i] = [@ EXCEPT !.latency = latency]]

update_latency(nodes, url, latency) ==
    LET i == FindNode(nodes, url) IN
    IF i = 0 THEN nodes
    ELSE [nodes EXCEPT ![i] = [@ EXCEPT !.latency = latency, !.fails = 0]]

mark_fail(nodes, url) ==
    LET i == FindNode(nodes, url) IN
    IF i = 0 THEN nodes ELSE [nodes EXCEPT ![i] = [@ EXCEPT !.fails = @ + 1]]

(***************************************************************************)
(* The string parallel_broadcast returns: the transaction hash in hex       *)
(* ("0x...") or its terminal error text.                                    *)
(***************************************************************************)
HexHash(h) == [hex |-> h]
AllRpcsFailed == Text("Error: all RPCs failed")
StartsWith0x(str) == "hex" \in DOMAIN str

RECURSIVE FirstOk(_, _)
\* the first Ok(Ok(h)) of the joined sends, in spawn order
FirstOk(urls, accepts) ==
    IF urls = <<>> THEN None
    ELSE IF Head(urls) \in accepts THEN Some(Head(urls))
         ELSE FirstOk(Tail(urls), accepts)

\* execution::parallel_broadcast of the transaction with hash h, when the
\* nodes in accepts accept it and every other send fails
parallel_broadcast(nodes, h, accepts) ==
    IF FirstOk(get_fastest_pool(nodes, 3), accepts).some
    THEN HexHash(h) ELSE AllRpcsFailed

(***************************************************************************)
(* Addresses arrive as strings: Address::from_str accepts the well-formed   *)
(* ones.                                                                    *)
(***************************************************************************)
\* the canonical (lower-case hex) form of the well-formed address strings;
\* a checksummed string parses to the same address as its lower-case form
Canonical ==
    [str \in {"0xrouter", "0xquoter", "0xtoken", "0xtoken2", "0xquote", "0xwnative",
              "0xwa", "0xwb", "0xWA"} |->
        IF str = "0xWA" THEN "0xwa" ELSE str]
ZeroAddress == "0x0"
from_str(str) == IF str \in DOMAIN Canonical THEN Some(Canonical[str]) ELSE None

\* Address ordering (token_in < token_out): the quote token sorts first
AddrLess(a, b) == a = "0xquote" /\ b = "0xtoken"

\* the address a private key signs for (LocalWallet::address)
KeyAddress(pk) == CASE pk = "kA" -> "0xwa" [] pk = "kB" -> "0xwb"

(***************************************************************************)
(* The state after construction: CORE_STATE's initial value, an empty RPC   *)
(* pool, no task spawned, the command loop waiting for its first command.   *)
(***************************************************************************)
CoreSnapshot ==
    [pending_txs |-> pending_txs, selected_pool_type |-> selected_pool_type,
     selected_pool_address |-> selected_pool_address,
     selected_pool_liquidity_usd |-> selected_pool_liquidity_usd,
     selected_pool_spot_price |-> selected_pool_spot_price, v2_reserves |-> v2_reserves,
     v3_states |-> v3_states, wallet_keys |-> wallet_keys,
     router_address |-> router_address, usd_prices |-> usd_prices]

NoMonitor == [pc |-> "none"]

\* one unit of the model's clock, in ms
ClockUnit == 30000
\* the clock at construction: the epoch is long past
StartClock == 3
\* the clock stops here
MaxClock == 6

\* rpc_health_checker: not running, or its url list and the position of the
\* round (0 while it waits for the next 10 s tick)
NoChecker == [urls |-> <<>>, pos |-> 0, on |-> FALSE]
NewChecker(urls) == [urls |-> urls, pos |-> 0, on |-> TRUE]

InitEngine ==
    /\ SHUTDOWN_FLAG = FALSE
    /\ RPC_POOL = <<>>
    /\ pending_txs = {}
    /\ selected_pool_type = None
    /\ selected_pool_address = None
    /\ selected_pool_liquidity_usd = 0
    /\ selected_pool_spot_price = 0
    /\ v2_reserves = EmptyMap
    /\ v3_states = EmptyMap
    /\ wallet_keys = EmptyMap
    /\ router_address = ZeroAddress
    /\ usd_prices = EmptyMap
    /\ nonce_map = EmptyMap
    /\ poisoned = FALSE
    /\ engine = [pc |-> "recv", init |-> None, rpc_checker |-> NoChecker,
                 received |-> 0]
    /\ monitor = NoMonitor
    /\ sessions = <<>>
    /\ trades = <<>>
    /\ txCount = 0
    /\ epoch = 0
    /\ signedAt = EmptyMap
    /\ bcastLog = <<>>
    /\ nonceLog = <<>>
    /\ lastPoll = None
    /\ lastCmd = None
    /\ TRACKED_WALLETS = <<>>
    /\ wrapped_native_address = ZeroAddress
    /\ fuel_enabled = FALSE
    /\ fuel_threshold = 0
    /\ fuel_amount = 0
    /\ fuel_quote_address = ZeroAddress
    /\ auto_fuel_attempts = EmptyMap
    /\ now = StartClock
    /\ fuelLog = <<>>
    /\ lockAt = NoPaths
    /\ PNL_STATE = EmptyMap
    /\ PNL_TASKS = EmptyMap
    /\ pnl_workers = <<>>

(***************************************************************************)
(* The bridge driven directly: callers hand events to emit_event one after  *)
(* another while the consumer pops.                                         *)
(***************************************************************************)
GasValues == {5, 6}

GasEvents == {EvGasPriceUpdate(g) : g \in GasValues}

BalanceEvents ==
    {EvBalanceUpdate("wA", "native", 1, "NATIVE"),
     EvBalanceUpdate("wB", "native", 1, "NATIVE"),
     EvBalanceUpdate("wA", "quote", 1, "QUOTE"),
     EvBalanceUpdate("wA", "native", 2, "NATIVE")}

DedupOtherEvents ==
    {EvPoolUpdate("p1", "V2", Some(1), Some(2), None, Some(2)),
     EvConnectionStatus(TRUE, "ws"),
     EvImpactUpdate("t", 1, 1)}

PassThroughEvents ==
    {EvEngineReady,
     EvLog("INFO", "m"),
     EvTradeStatus("wA", "buy", "Sent", Text("0x1"), Some(Text("0x1"))),
     EvTxSent(Text("0x1"), "wA", "buy"),
     EvTxConfirmed(Text("0x1"), "success"),
     EvPoolDetected("V2", "p1"),
     EvPoolNotFound("t"),
     EvPnLUpdate("wA"),
     EvAutoFuelError("wA", "r")}

BridgeEvents == GasEvents \cup BalanceEvents \cup DedupOtherEvents \cup PassThroughEvents

DedupKinds == {"BalanceUpdate", "PoolUpdate", "GasPriceUpdate", "ConnectionStatus",
               "ImpactUpdate"}

\* a caller hands one GasPriceUpdate to emit_event
GasEmit ==
    /\ Len(calls) < MaxGasCalls
    /\ \E e \in GasEvents : Emits(<<e>>)
    /\ UNCHANGED engineVars

\* a caller hands one event of any kind to emit_event
AnyEmit ==
    /\ Len(calls) < MaxCalls
    /\ \E e \in BridgeEvents : Emits(<<e>>)
    /\ UNCHANGED engineVars

\* the program right after construction
Init == InitBridge /\ InitEngine

\* the consumer polls the queue
Pop == PopFromBridge /\ UNCHANGED engineVars

NextGas == GasEmit \/ Pop
SpecGas == Init /\ [][NextGas]_vars

NextBridge == AnyEmit \/ Pop
SpecBridge == Init /\ [][NextBridge]_vars

(***************************************************************************)
(* What the consumer has been sent so far, in order: popped, then queued.   *)
(***************************************************************************)
Delivered == popped \o BRIDGE_QUEUE

RECURSIVE SelectField(_, _, _)
\* the values of field f of the JSON blobs of kind k in s, in order
SelectField(s, k, f) ==
    IF s = <<>> THEN <<>>
    ELSE LET rest == SelectField(Tail(s), k, f) IN
         IF Head(s).type = k THEN <<Head(s).data[f]>> \o rest ELSE rest

RECURSIVE CallField(_, _, _)
\* the values of field f of the events of kind k handed to emit_event, in order
CallField(s, k, f) ==
    IF s = <<>> THEN <<>>
    ELSE LET rest == CallField(Tail(s), k, f) IN
         IF Head(s).ev.type = k THEN <<Head(s).ev[f]>> \o rest ELSE rest

RECURSIVE KeepChanges(_)
\* a sequence of values filtered by "drop a value equal to the last one kept"
KeepChanges(s) ==
    IF s = <<>> THEN <<>>
    ELSE LET k == KeepChanges(SubSeq(s, 1, Len(s) - 1))
             x == s[Len(s)]
         IN IF k # <<>> /\ k[Len(k)] = x THEN k ELSE Append(k, x)

GasIn == CallField(calls, "GasPriceUpdate", "gas_price_gwei")
GasOut == SelectField(Delivered, "GasPriceUpdate", "gas_price_gwei")

\* C1: of the GasPriceUpdate events handed to emit_event one after another,
\* exactly those whose value differs from the last emitted one reach the
\* queue, the emitted value being the new anchor; the input
\* 5,5,5,5,5,6,5 gwei puts exactly 5,6,5 on the queue.
C1_GasDedup ==
    /\ GasOut = KeepChanges(GasIn)
    /\ GasIn = <<5, 5, 5, 5, 5, 6, 5>> => GasOut = <<5, 6, 5>>
    /\ GasOut # <<>> => LAST_GAS = Some(F64ToBits(GasOut[Len(GasOut)]))

C1_Witness ==
    /\ GasIn = <<5, 5, 5, 5, 5, 6, 5>>
    /\ GasOut = <<5, 6, 5>>

\* the last BalanceUpdate emitted before call i, if any
LastSentBalance(i) ==
    LET js == {j \in 1..(i - 1) : calls[j].ev.type = "BalanceUpdate" /\ calls[j].sent}
    IN IF js = {} THEN None
       ELSE Some(calls[CHOOSE j \in js : \A k \in js : k <= j].ev)

\* C2: a BalanceUpdate is suppressed only when its whole payload (wallet,
\* token, wei, float_val, symbol) is identical to the last emitted
\* BalanceUpdate; one that differs in any field is put on the queue.
C2_BalanceWholePayload ==
    \A i \in 1..Len(calls) :
        (calls[i].ev.type = "BalanceUpdate" /\ ~calls[i].sent)
            => LastSentBalance(i) = Some(calls[i].ev)

\* the JSON blobs of the calls that were sent, in call order
RECURSIVE Enqueued(_)
Enqueued(s) ==
    IF s = <<>> THEN <<>>
    ELSE IF Head(s).sent THEN <<ToJson(Head(s).ev)>> \o Enqueued(Tail(s))
         ELSE Enqueued(Tail(s))

\* C3: the consumer receives the enqueued events in enqueue order, each
\* exactly once (what was popped, followed by what is still queued, is the
\* enqueued sequence); events of the kinds that are not deduplicated are
\* never dropped; a pop of the empty queue returns None at once.
C3_OrderExactlyOnce ==
    /\ Delivered = Enqueued(calls)
    /\ \A i \in 1..Len(calls) : calls[i].ev.type \notin DedupKinds => calls[i].sent
    /\ lastPop.empty => lastPop.res = None
    /\ ~lastPop.empty => lastPop.res = Some(popped[Len(popped)])

C3_Witness ==
    /\ Len(popped) >= 2
    /\ BRIDGE_QUEUE = <<>>
    /\ lastPop = [res |-> None, empty |-> TRUE]
    /\ \E i \in 1..Len(calls) : ~calls[i].sent
    /\ \E i \in 1..Len(calls) : calls[i].ev.type \notin DedupKinds

(***************************************************************************)
(* What the task steps below put on the bridge.  Diagnostic logs below      *)
(* ERROR pass through emit_event unconditionally and carry no state; the    *)
(* task steps leave them out and keep the ERROR logs and every other event. *)
(***************************************************************************)
Audible(es) == SelectSeq(es, LAMBDA e : e.type = "Log" => e.level = "ERROR")

TaskEmits(es) == Emits(Audible(es))

(***************************************************************************)
(* The engine command loop (engine.rs).  A handler that unwraps an Err or a *)
(* poisoned lock panics the loop task: it receives no further command.      *)
(***************************************************************************)
\* wei per unit of the native coin (1e18 in the program, scaled down here)
WeiPerBnb == 10

\* commands the loop may still receive
MaxCmds == 4
\* trade tasks that may be spawned
MaxTrades == 1

Receiving == engine.pc = "recv" /\ engine.received < MaxCmds

Received(pc) == [engine EXCEPT !.pc = pc, !.received = @ + 1]

RECURSIVE WalletMap(_, _)
\* for (a, k) in wallets: insert when the address parses
WalletMap(m, ws) ==
    IF ws = <<>> THEN m
    ELSE LET a == from_str(Head(ws)[1]) IN
         WalletMap(IF a.some THEN MapPut(m, a.val, Head(ws)[2]) ELSE m, Tail(ws))

\* the nodes Init installs: the public URLs, then the private one, unprobed
InitNodes(c) ==
    LET all_urls == Append(c.public_rpc_urls, c.rpc_url) IN
    [i \in 1..Len(all_urls) |->
        RpcNode(all_urls[i], U128_MAX, all_urls[i] = c.rpc_url, 0)]

BadInit(c) == ~from_str(c.router).some \/ ~from_str(c.quoter).some

\* Init, up to its 50 ms sleep: raise the flag, abort the registered tasks
CmdInitBegin(c) ==
    /\ Receiving
    /\ SHUTDOWN_FLAG' = TRUE
    /\ monitor' = NoMonitor
    /\ engine' = [Received("init_sleep") EXCEPT !.init = Some(c),
                                                 !.rpc_checker = NoChecker]
    /\ lastCmd' = Some([kind |-> "Init", bad |-> BadInit(c)])
    /\ UNCHANGED <<bridgeVars, RPC_POOL, coreVars, sessions, trades, txCount, epoch,
                   signedAt, bcastLog, nonceLog, lastPoll>>
    /\ UNCHANGED fuelVars

\* what Init writes besides the pool maps
InitVars == <<TRACKED_WALLETS, wrapped_native_address, fuel_enabled, fuel_threshold,
              fuel_amount, fuel_quote_address>>

\* engine.rs bnb_to_wei: a non-positive amount is zero wei
bnb_to_wei(bnb) == IF bnb <= 0 THEN 0 ELSE bnb * WeiPerBnb

RECURSIVE TrackedOf(_)
\* for (a, k) in wallets: push when the address parses
TrackedOf(ws) ==
    IF ws = <<>> THEN <<>>
    ELSE LET a == from_str(Head(ws)[1]) IN
         (IF a.some THEN <<a.val>> ELSE <<>>) \o TrackedOf(Tail(ws))

\* Init, after the sleep: lower the flag, parse the addresses, install the
\* RPC pool, clear and refill CORE_STATE, spawn the workers, announce
CmdInitFinish ==
    /\ engine.pc = "init_sleep"
    /\ SHUTDOWN_FLAG' = FALSE
    /\ LET c == engine.init.val IN
       IF BadInit(c)
       THEN /\ engine' = [engine EXCEPT !.pc = "panicked", !.init = None]
            /\ UNCHANGED <<bridgeVars, RPC_POOL, coreVars, epoch, InitVars>>
       ELSE /\ RPC_POOL' = InitNodes(c)
            /\ IF poisoned
               THEN /\ engine' = [engine EXCEPT !.pc = "panicked", !.init = None]
                    /\ UNCHANGED <<bridgeVars, coreVars, epoch, InitVars>>
               ELSE /\ v2_reserves' = EmptyMap
                    /\ v3_states' = EmptyMap
                    /\ usd_prices' = EmptyMap
                    /\ nonce_map' = EmptyMap
                    /\ pending_txs' = {}
                    /\ wallet_keys' = WalletMap(EmptyMap, c.wallets)
                    /\ router_address' = from_str(c.router).val
                    /\ wrapped_native_address' = UnwrapOr(from_str(c.wrapped_native),
                                                         ZeroAddress)
                    /\ fuel_enabled' = c.fuel_settings.auto_fuel_enabled
                    /\ fuel_threshold' = bnb_to_wei(c.fuel_settings.auto_fuel_threshold)
                    /\ fuel_amount' = bnb_to_wei(c.fuel_settings.auto_fuel_amount)
                    /\ fuel_quote_address' =
                           UnwrapOr(from_str(c.fuel_settings.fuel_quote_address),
                                    ZeroAddress)
                    /\ TRACKED_WALLETS' = TrackedOf(c.wallets)
                    /\ UNCHANGED <<selected_pool_type, selected_pool_address,
                                   selected_pool_liquidity_usd, selected_pool_spot_price, poisoned>>
                    /\ epoch' = epoch + 1
                    /\ engine' = [engine EXCEPT !.pc = "recv", !.init = None,
                           !.rpc_checker = NewChecker(Append(c.public_rpc_urls, c.rpc_url))]
                    /\ TaskEmits((IF c.quote_symbol # ""
                              THEN <<EvLog("INFO", "quote symbol set")>> ELSE <<>>)
                             \o <<EvEngineReady,
                                  EvConnectionStatus(TRUE, "core initialised")>>)
    /\ UNCHANGED <<monitor, sessions, trades, txCount, signedAt, bcastLog, nonceLog, lastPoll,
                   lastCmd, auto_fuel_attempts, now, fuelLog, lockAt,
                   pnlVars>>

BadSwitch(c) == ~from_str(c.token_address).some \/ ~from_str(c.quote_address).some

\* start_unified_websocket_monitor as spawned: nothing discovered, no wallet
\* list read, no connection attempt made
NewMonitor(token, quote) ==
    [pc |-> "discover", token |-> token, quote |-> quote, kind |-> "none",
     wallets |-> <<>>, attempt |-> 0]

\* SwitchToken: clear the selection and the pool maps, replace the monitor
CmdSwitchToken(c) ==
    /\ Receiving
    /\ lastCmd' = Some([kind |-> "SwitchToken", bad |-> BadSwitch(c)])
    /\ IF BadSwitch(c) \/ poisoned
       THEN /\ engine' = Received("panicked")
            /\ UNCHANGED <<bridgeVars, coreVars, monitor, fuel_quote_address>>
       ELSE /\ selected_pool_type' = None
            /\ selected_pool_address' = None
            /\ selected_pool_liquidity_usd' = 0
            /\ selected_pool_spot_price' = 0
            /\ v2_reserves' = EmptyMap
            /\ v3_states' = EmptyMap
            /\ TaskEmits(<<EvLog("INFO", "quote token set")>>)
            /\ fuel_quote_address' = from_str(c.quote_address).val
            /\ monitor' = NewMonitor(from_str(c.token_address).val,
                                     from_str(c.quote_address).val)
            /\ engine' = Received("recv")
            /\ UNCHANGED <<pending_txs, wallet_keys, router_address, usd_prices,
                           nonce_map, poisoned>>
    /\ UNCHANGED <<SHUTDOWN_FLAG, RPC_POOL, sessions, trades, txCount, epoch, signedAt,
                   bcastLog, nonceLog, lastPoll, TRACKED_WALLETS, wrapped_native_address,
                   fuel_enabled, fuel_threshold, fuel_amount, auto_fuel_attempts, now,
                   fuelLog, lockAt,
                   pnlVars>>

BadTrade(c) == ~from_str(c.token).some \/ ~from_str(c.quote_token).some

RECURSIVE KeysOf(_, _)
\* wallets.iter().filter_map(parse, then look the key up)
KeysOf(m, ws) ==
    IF ws = <<>> THEN <<>>
    ELSE LET a == from_str(Head(ws)) IN
         (IF a.some /\ a.val \in DOMAIN m THEN <<m[a.val]>> ELSE <<>>)
             \o KeysOf(m, Tail(ws))

\* *nonce_map.get(&wallet).unwrap_or(&0)
NonceOf(m, w) == IF w \in DOMAIN m THEN m[w] ELSE 0

\* a broadcast that returned a hash, for the history
Sent(wallet, nonce, kind) == [wallet |-> wallet, nonce |-> nonce, kind |-> kind]

\* the run_batch_trade task as spawned: its arguments and empty locals
NewTrade(k, r, c) ==
    [pc |-> "start", keys |-> k, router |-> r, action |-> c.action,
     amount |-> c.amount, slippage |-> c.slippage, amounts_wei |-> c.amounts_wei,
     events |-> <<>>, p_type |-> "", url |-> None, wallet |-> "", amount_wei |-> 0,
     hash |-> 0, nonce |-> 0, exp_out |-> 0, min_out |-> 0]

\* ExecuteTrade: read the router and the keys, spawn run_batch_trade
CmdExecuteTrade(c) ==
    /\ Receiving
    /\ Len(trades) < MaxTrades
    /\ lastCmd' = Some([kind |-> "ExecuteTrade", bad |-> BadTrade(c)])
    /\ IF BadTrade(c) \/ poisoned
       THEN /\ engine' = Received("panicked")
            /\ UNCHANGED trades
       ELSE /\ trades' = Append(trades,
                   NewTrade(KeysOf(wallet_keys, c.wallets), router_address, c))
            /\ engine' = Received("recv")
    /\ UNCHANGED <<bridgeVars, SHUTDOWN_FLAG, RPC_POOL, coreVars, monitor, sessions,
                   txCount, epoch, signedAt, bcastLog, nonceLog, lastPoll>>
    /\ UNCHANGED fuelVars

\* UpdatePrice: one insert under the write lock
CmdUpdatePrice(symbol, price) ==
    /\ Receiving
    /\ lastCmd' = Some([kind |-> "UpdatePrice", bad |-> FALSE])
    /\ IF poisoned
       THEN /\ engine' = Received("panicked")
            /\ UNCHANGED usd_prices
       ELSE /\ usd_prices' = MapPut(usd_prices, symbol, price)
            /\ engine' = Received("recv")
    /\ UNCHANGED <<bridgeVars, SHUTDOWN_FLAG, RPC_POOL, pending_txs, selected_pool_type,
                   selected_pool_address,
                   selected_pool_liquidity_usd, selected_pool_spot_price,
                   v2_reserves, v3_states, wallet_keys,
                   router_address, nonce_map, poisoned, monitor, sessions, trades, txCount,
                   epoch, signedAt, bcastLog, nonceLog, lastPoll>>
    /\ UNCHANGED fuelVars

(***************************************************************************)
(* Pool values.  A U256 square-root price is kept as two limbs: hi counts   *)
(* multiples of 2^128, lo is in units of 2^96, so that as_u128() overflows  *)
(* exactly when hi is not zero.                                             *)
(***************************************************************************)
U256(hi, lo) == [hi |-> hi, lo |-> lo]
V3PoolState(sqrtp, liquidity, fee) ==
    [sqrt_price_x96 |-> sqrtp, liquidity |-> liquidity, pool_fee |-> fee]

\* U256::as_u128 panics when the value does not fit
AsU128Panics(x) == x.hi # 0

\* calculate_v2_liquidity_usd_and_price's price for token0 = quote: r0 / r1
V2Price(r0, r1) == IF r0 = 0 \/ r1 = 0 THEN 0 ELSE r0 \div r1

\* calculate_v3_liquidity_usd_and_price panics in as_u128 unless it returns
\* early for a zero price or zero liquidity
V3CalcPanics(sqrtp, liquidity) ==
    ~(sqrtp = U256(0, 0) \/ liquidity = 0) /\ AsU128Panics(sqrtp)

\* its price for token0 = quote: 1 / (sqrt_p * sqrt_p), exact for sqrt_p = 1
V3Price(sqrtp, liquidity) ==
    IF sqrtp = U256(0, 0) \/ liquidity = 0 THEN 0 ELSE 1 \div (sqrtp.lo * sqrtp.lo)

\* calculate_v2_liquidity_usd_and_price's liquidity for token0 = quote, at a
\* quote price of 1 USD (get_quote_price_usd when no price is known)
V2LiquidityUsd(r0, r1) == IF r0 = 0 \/ r1 = 0 THEN 0 ELSE 2 * r0

\* calculate_v3_liquidity_usd_and_price's liquidity for token0 = quote:
\* liquidity / sqrt_p
V3LiquidityUsd(sqrtp, liquidity) ==
    IF sqrtp = U256(0, 0) \/ liquidity = 0 THEN 0 ELSE liquidity \div sqrtp.lo

\* the one pool the model's factory can return for the pair
ThePool == "0xpool"
\* the pool the factories hold for a token: every token has its own
PoolOf(token) == IF token = "0xtoken2" THEN "0xpool2" ELSE ThePool

(***************************************************************************)
(* The WebSocket supervisor (start_unified_websocket_monitor, run_forever). *)
(* The model's environment: gas-price and balance requests of the prefetch  *)
(* fail (nothing is emitted for them), no other quote token is configured,  *)
(* and a WebSocket connect succeeds.                                        *)
(***************************************************************************)
\* WebSocket sessions that may be started
MaxSessions == 1

MonitorPanic == monitor' = [pc |-> "panicked"]

\* discover_pools, then the head of run_forever's first iteration
MonitorDiscover(found) ==
    /\ monitor.pc = "discover"
    /\ found # "none" => get_fastest_pool(RPC_POOL, 5) # <<>>
    /\ IF poisoned
       THEN /\ MonitorPanic
            /\ TaskEmits(<<EvLog("INFO", "searching pools")>>)
            /\ UNCHANGED v3_states
       ELSE /\ v3_states' = IF found = "V3"
                            THEN MapPut(v3_states, PoolOf(monitor.token),
                                        V3PoolState(U256(0, 0), 0, 2500))
                            ELSE v3_states
            /\ IF found = "none"
               THEN /\ monitor' = [pc |-> "done"]
                    /\ TaskEmits(<<EvLog("INFO", "searching pools"),
                               EvLog("WARNING", "no pools for the selected quote"),
                               EvLog("ERROR", "no pools for any quote"),
                               EvPoolNotFound(monitor.token)>>)
               ELSE IF SHUTDOWN_FLAG
               THEN /\ monitor' = [pc |-> "done"]
                    /\ TaskEmits(<<EvLog("INFO", "searching pools"),
                               EvLog("SUCCESS", "pools found"),
                               EvLog("INFO", "shutdown signal received")>>)
               ELSE /\ monitor' = [monitor EXCEPT !.pc = "provider", !.kind = found,
                                                  !.wallets = TRACKED_WALLETS,
                                                  !.attempt = 1]
                    /\ TaskEmits(<<EvLog("INFO", "searching pools"),
                               EvLog("SUCCESS", "pools found"),
                               EvLog("INFO", "connection attempt"),
                               EvConnectionStatus(FALSE, "connecting #1")>>)
    /\ UNCHANGED <<SHUTDOWN_FLAG, RPC_POOL, pending_txs, selected_pool_type,
                   selected_pool_address,
                   selected_pool_liquidity_usd, selected_pool_spot_price,
                   v2_reserves, wallet_keys, router_address,
                   usd_prices, nonce_map, poisoned, engine, sessions, trades, histVars>>
    /\ UNCHANGED fuelVars

\* what the prefetch learns about the pool: nothing (no provider answered),
\* a failed read, V2 reserves, or a V3 slot0 with its liquidity
PrefetchNone == [kind |-> "no_provider"]
PrefetchFailed == [kind |-> "failed"]
PrefetchV2(r0, r1, liquid) == [kind |-> "V2", r0 |-> r0, r1 |-> r1, liquid |-> liquid]
PrefetchV3(sqrtp, liq_raw, liquid) ==
    [kind |-> "V3", sqrtp |-> sqrtp, liquidity |-> liq_raw, liquid |-> liquid]

\* select_best_pool's log lines for the candidates (at most one here)
SelectLogs(n, liquid) ==
    <<EvLog("DEBUG", "candidates"), EvLog("DEBUG", "select_best_pool: before filter")>>
    \o (IF n = 0 THEN <<>>
        ELSE <<EvLog("DEBUG", "candidate"),
               EvLog("DEBUG", "select_best_pool: after filter")>>
             \o (IF liquid THEN <<>> ELSE <<EvLog("WARNING", "all pools filtered")>>))

\* get_http_provider and prefetch_all_data: store the pool's data, select
\* the best candidate (liquidity_usd > 10), announce it
MonitorPrefetch(r) ==
    /\ monitor.pc = "provider"
    /\ r.kind = "no_provider" \/ get_fastest_pool(RPC_POOL, 3) # <<>>
    /\ r.kind \in {"V2", "V3"} => r.kind = monitor.kind
    /\ IF r.kind = "no_provider"
       THEN /\ monitor' = [monitor EXCEPT !.pc = "connect"]
            /\ UNCHANGED <<bridgeVars, v2_reserves, v3_states, selected_pool_type,
                           selected_pool_address,
                           selected_pool_liquidity_usd, selected_pool_spot_price>>
       ELSE IF poisoned \/ (r.kind = "V3" /\ V3CalcPanics(r.sqrtp, r.liquidity))
       THEN /\ MonitorPanic
            /\ TaskEmits(<<EvLog("INFO", "prefetch start")>>
                     \o IF poisoned THEN <<>>
                        ELSE <<EvLog("WARNING", "target is neither V2 nor V3")>>)
            /\ UNCHANGED <<v2_reserves, v3_states, selected_pool_type,
                           selected_pool_address,
                           selected_pool_liquidity_usd, selected_pool_spot_price>>
       ELSE LET found == r.kind \in {"V2", "V3"}
                picked == found /\ r.liquid
                pool == PoolOf(monitor.token)
                fee == IF pool \in DOMAIN v3_states
                       THEN v3_states[pool].pool_fee ELSE 2500
            IN /\ v2_reserves' = IF r.kind = "V2"
                                 THEN MapPut(v2_reserves, pool, <<r.r0, r.r1>>)
                                 ELSE v2_reserves
               /\ v3_states' = IF r.kind = "V3"
                               THEN MapPut(v3_states, pool,
                                           V3PoolState(r.sqrtp, r.liquidity, fee))
                               ELSE v3_states
               /\ selected_pool_type' = IF picked THEN Some(r.kind)
                                        ELSE selected_pool_type
               /\ selected_pool_address' = IF picked THEN Some(pool)
                                           ELSE selected_pool_address
               /\ selected_pool_liquidity_usd' =
                      IF ~picked THEN selected_pool_liquidity_usd
                      ELSE IF r.kind = "V2" THEN V2LiquidityUsd(r.r0, r.r1)
                      ELSE V3LiquidityUsd(r.sqrtp, r.liquidity)
               /\ selected_pool_spot_price' =
                      IF ~picked THEN selected_pool_spot_price
                      ELSE IF r.kind = "V2" THEN V2Price(r.r0, r.r1)
                      ELSE V3Price(r.sqrtp, r.liquidity)
               /\ monitor' = [monitor EXCEPT !.pc = "connect"]
               /\ TaskEmits(<<EvLog("INFO", "prefetch start"),
                          EvLog("WARNING", "target is neither V2 nor V3")>>
                        \o (IF found THEN <<>>
                            ELSE <<EvLog("WARNING", "target is neither V2 nor V3")>>)
                        \o SelectLogs(IF found THEN 1 ELSE 0, picked)
                        \o (IF picked
                            THEN <<EvPoolDetected(r.kind, PoolOf(monitor.token)),
                                   EvLog("DEBUG", "best pool")>>
                            ELSE <<>>)
                        \o <<EvLog("SUCCESS", "prefetch done")>>)
    /\ UNCHANGED <<SHUTDOWN_FLAG, RPC_POOL, pending_txs, wallet_keys, router_address,
                   usd_prices, nonce_map, poisoned, engine, sessions, trades, histVars>>
    /\ UNCHANGED fuelVars

\* blocks_task as spawned, subscribed and waiting for its first block: the
\* wallets it was given, those of the current block still to check, the
\* blocks seen, and the locals of the fuel job in progress
NewBlocks(wallets) ==
    [pc |-> "wait", wallets |-> wallets, todo |-> <<>>, seen |-> 0, balance |-> 0,
     job |-> None, hash |-> 0, nonce |-> 0, entry |-> <<0, 0>>, last |-> "none"]

\* a session's child streams as spawned: the block stream, the pending-tx
\* poller and the pool-log stream with the number of logs it has handled
NewSession(wallets) ==
    [poller |-> [pc |-> "tick", todo |-> <<>>], pools |-> "live", logs |-> 0,
     blocks |-> NewBlocks(wallets)]

\* the session supervisor m opens: its child streams, the pair whose pools
\* they are subscribed to and (history) the Init under which it was opened
SessionOf(m) ==
    [poller |-> NewSession(m.wallets).poller, pools |-> NewSession(m.wallets).pools,
     logs |-> NewSession(m.wallets).logs, blocks |-> NewSession(m.wallets).blocks,
     token |-> m.token, quote |-> m.quote, opened |-> epoch]

\* the "connecting" message of the n-th attempt in a row
ConnectingMsg(n) ==
    CASE n = 1 -> "connecting #1" [] n = 2 -> "connecting #2" [] OTHER -> "connecting #3"

\* Provider::<Ws>::connect succeeds while fewer than max sessions were
\* started: announce it, spawn the child streams
MonitorConnectUpTo(max) ==
    /\ monitor.pc = "connect"
    /\ Len(sessions) < max
    /\ sessions' = Append(sessions, SessionOf(monitor))
    /\ monitor' = [monitor EXCEPT !.pc = "live", !.attempt = 0]
    /\ TaskEmits(<<EvLog("SUCCESS", "websocket connected"),
               EvConnectionStatus(TRUE, "websocket connected"),
               EvLog("INFO", "pending transactions subscription active"),
               EvLog("INFO", "pool subscription active")>>)
    /\ UNCHANGED <<SHUTDOWN_FLAG, RPC_POOL, coreVars, engine, trades, histVars>>
    /\ UNCHANGED fuelVars

MonitorConnect == MonitorConnectUpTo(MaxSessions)

\* connection attempts in a row that may fail
MaxAttempts == 2

\* run_forever's sleep and the head of its next iteration, after att attempts
\* in a row: leave on shutdown, else announce the next attempt
LoopHead(att) ==
    IF SHUTDOWN_FLAG
    THEN [pc |-> "done", attempt |-> att,
          events |-> <<EvLog("INFO", "reconnect delay"),
                       EvLog("INFO", "shutdown signal received")>>]
    ELSE [pc |-> "provider", attempt |-> att + 1,
          events |-> <<EvLog("INFO", "reconnect delay"),
                       EvLog("INFO", "connection attempt"),
                       EvConnectionStatus(FALSE, ConnectingMsg(att + 1))>>]

\* Provider::<Ws>::connect fails: report it, sleep, next iteration
MonitorConnectFail ==
    LET head == LoopHead(monitor.attempt) IN
    /\ monitor.pc = "connect"
    /\ monitor.attempt < MaxAttempts
    /\ monitor' = [monitor EXCEPT !.pc = head.pc, !.attempt = head.attempt]
    /\ TaskEmits(<<EvLog("ERROR", "websocket connect error"),
                   EvConnectionStatus(FALSE, "connect error")>> \o head.events)
    /\ UNCHANGED <<SHUTDOWN_FLAG, RPC_POOL, coreVars, engine, sessions, trades,
                   histVars>>
    /\ UNCHANGED fuelVars

(***************************************************************************)
(* The pending-transaction poller (pending_txs_task).                       *)
(***************************************************************************)
\* the orders in which a HashSet of hashes may be iterated
Orders(S) ==
    {q \in UNION {[1..n -> S] : n \in {Cardinality(S)}} :
        \A i, j \in 1..Len(q) : i # j => q[i] # q[j]}

SetPoller(s, p) == sessions' = [sessions EXCEPT ![s].poller = p]

\* one 500 ms tick: leave on shutdown, else snapshot pending_txs
PollerTick(s) ==
    /\ sessions[s].poller.pc = "tick"
    /\ IF SHUTDOWN_FLAG
       THEN SetPoller(s, [pc |-> "done", todo |-> <<>>])
       ELSE IF poisoned
       THEN SetPoller(s, [pc |-> "panicked", todo |-> <<>>])
       ELSE \E q \in Orders(pending_txs) :
                SetPoller(s, [pc |-> IF q = <<>> THEN "tick" ELSE "check", todo |-> q])
    /\ UNCHANGED <<bridgeVars, SHUTDOWN_FLAG, RPC_POOL, coreVars, engine, monitor,
                   trades, histVars>>
    /\ UNCHANGED fuelVars

ReceiptOutcomes == {"success", "failed", "none", "error"}
IsReceipt(outcome) == outcome \in {"success", "failed"}

\* what the poller emits for get_transaction_receipt's outcome
ReceiptEvents(h, outcome) ==
    IF IsReceipt(outcome)
    THEN <<EvLog("INFO", "tx confirmed"), EvTxConfirmed(HexHash(h), outcome)>>
    ELSE IF outcome = "error" THEN <<EvLog("WARNING", "receipt check failed")>>
    ELSE <<>>

\* pending_txs after the poll of h: removed when a receipt came back
PendingAfterPoll(pending, h, outcome) ==
    IF IsReceipt(outcome) THEN pending \ {h} ELSE pending

\* get_transaction_receipt returns for the next hash of the snapshot
PollerReceipt(s, outcome) ==
    LET p == sessions[s].poller
        h == Head(p.todo)
        panics == IsReceipt(outcome) /\ poisoned
        rest == Tail(p.todo)
    IN /\ p.pc = "check"
       /\ TaskEmits(ReceiptEvents(h, outcome))
       /\ pending_txs' = IF panics THEN pending_txs
                         ELSE PendingAfterPoll(pending_txs, h, outcome)
       /\ SetPoller(s, IF panics THEN [pc |-> "panicked", todo |-> <<>>]
                       ELSE [pc |-> IF rest = <<>> THEN "tick" ELSE "check",
                             todo |-> rest])
       /\ lastPoll' = Some([hash |-> h, outcome |-> outcome, before |-> pending_txs,
                            after |-> pending_txs',
                            emitted |-> ReceiptEvents(h, outcome)])
       /\ UNCHANGED <<SHUTDOWN_FLAG, RPC_POOL, selected_pool_type,
                      selected_pool_address,
                      selected_pool_liquidity_usd, selected_pool_spot_price,
                      v2_reserves, v3_states, wallet_keys,
                      router_address, usd_prices, nonce_map, poisoned, engine, monitor, trades,
                      txCount, epoch, signedAt, bcastLog, nonceLog, lastCmd>>
       /\ UNCHANGED fuelVars

(***************************************************************************)
(* The pool-log stream (pools_task): one step per log received.             *)
(***************************************************************************)
SyncLog(r0, r1) == [kind |-> "Sync", r0 |-> r0, r1 |-> r1]
SwapLog(sqrtp, liquidity) == [kind |-> "Swap", sqrtp |-> sqrtp, liquidity |-> liquidity]

\* logs a session's pool subscription may deliver
MaxLogs == 1

SetPools(s, pc) ==
    sessions' = [sessions EXCEPT ![s].pools = pc, ![s].logs = @ + 1]

\* a Swap log's update of the pool's V3 state, when the pool is known
SwapUpdate(m, pool, log) ==
    IF pool \in DOMAIN m
    THEN [m EXCEPT ![pool] = [@ EXCEPT !.sqrt_price_x96 = log.sqrtp,
                                       !.liquidity = log.liquidity]]
    ELSE m

PoolLog(s, log) ==
    LET pool == PoolOf(sessions[s].token)
        selected == selected_pool_address = Some(pool)
    IN
    /\ sessions[s].pools = "live"
    /\ sessions[s].logs < MaxLogs
    /\ IF SHUTDOWN_FLAG
       THEN /\ SetPools(s, "done")
            /\ UNCHANGED <<bridgeVars, v2_reserves, v3_states, poisoned,
                           selected_pool_liquidity_usd, selected_pool_spot_price>>
       ELSE IF poisoned
       THEN /\ SetPools(s, "panicked")
            /\ UNCHANGED <<bridgeVars, v2_reserves, v3_states, poisoned,
                           selected_pool_liquidity_usd, selected_pool_spot_price>>
       ELSE IF log.kind = "Sync"
       THEN /\ v2_reserves' = MapPut(v2_reserves, pool, <<log.r0, log.r1>>)
            /\ selected_pool_spot_price' =
                   IF selected THEN V2Price(log.r0, log.r1) ELSE selected_pool_spot_price
            /\ selected_pool_liquidity_usd' =
                   IF selected THEN V2LiquidityUsd(log.r0, log.r1)
                   ELSE selected_pool_liquidity_usd
            /\ TaskEmits(<<EvPoolUpdate(pool, "V2", Some(log.r0), Some(log.r1), None,
                                        Some(V2Price(log.r0, log.r1)))>>)
            /\ SetPools(s, "live")
            /\ UNCHANGED <<v3_states, poisoned>>
       ELSE \* a Swap log: the write guard is held across the price calculation
            /\ v3_states' = SwapUpdate(v3_states, pool, log)
            /\ IF V3CalcPanics(log.sqrtp, log.liquidity)
               THEN /\ poisoned' = TRUE
                    /\ SetPools(s, "panicked")
                    /\ UNCHANGED <<bridgeVars, selected_pool_liquidity_usd,
                                   selected_pool_spot_price>>
               ELSE /\ selected_pool_spot_price' =
                           IF selected THEN V3Price(log.sqrtp, log.liquidity)
                           ELSE selected_pool_spot_price
                    /\ selected_pool_liquidity_usd' =
                           IF selected THEN V3LiquidityUsd(log.sqrtp, log.liquidity)
                           ELSE selected_pool_liquidity_usd
                    /\ TaskEmits(<<EvPoolUpdate(pool, "V3", None, None, Some(log.sqrtp),
                                                Some(V3Price(log.sqrtp, log.liquidity)))>>)
                    /\ SetPools(s, "live")
                    /\ UNCHANGED poisoned
            /\ UNCHANGED v2_reserves
    /\ UNCHANGED <<SHUTDOWN_FLAG, RPC_POOL, pending_txs, selected_pool_type,
                   selected_pool_address, wallet_keys, router_address, usd_prices, nonce_map,
                   engine, monitor, trades, histVars>>
    /\ UNCHANGED fuelVars

\* the supervisor's select! sees a child's join error: report, announce the
\* disconnect, sleep, and start the next iteration of run_forever
MonitorJoinError(s) ==
    /\ monitor.pc = "live"
    /\ s = Len(sessions)
    /\ sessions[s].pools = "panicked" \/ sessions[s].poller.pc = "panicked"
    /\ IF SHUTDOWN_FLAG
       THEN /\ monitor' = [pc |-> "done"]
            /\ TaskEmits(<<EvLog("ERROR", "websocket error, reconnecting"),
                       EvConnectionStatus(FALSE, "join error"),
                       EvLog("INFO", "reconnect delay"),
                       EvLog("INFO", "shutdown signal received")>>)
       ELSE /\ monitor' = [monitor EXCEPT !.pc = "provider", !.attempt = 1]
            /\ TaskEmits(<<EvLog("ERROR", "websocket error, reconnecting"),
                       EvConnectionStatus(FALSE, "join error"),
                       EvLog("INFO", "reconnect delay"),
                       EvLog("INFO", "connection attempt"),
                       EvConnectionStatus(FALSE, "connecting #1")>>)
    /\ UNCHANGED <<SHUTDOWN_FLAG, RPC_POOL, coreVars, engine, sessions, trades,
                   histVars>>
    /\ UNCHANGED fuelVars

\* the pool-log stream of the session ends (stream.next() answers None)
PoolStreamEnds(s) ==
    /\ sessions[s].pools = "live"
    /\ sessions' = [sessions EXCEPT ![s].pools = "ended"]
    /\ UNCHANGED <<bridgeVars, SHUTDOWN_FLAG, RPC_POOL, coreVars, engine, monitor,
                   trades, histVars>>
    /\ UNCHANGED fuelVars

\* the DisconnectReason values (as format!("{:?}") prints them) the select!
\* of session s may resolve to
SessionReasons(s) ==
    LET x == sessions[s] IN
    (IF x.blocks.pc = "idle" THEN {"IdleTimeout"} ELSE {})
    \cup (IF x.blocks.pc = "ended" THEN {"StreamEnded(blocks)"} ELSE {})
    \cup (IF x.blocks.pc = "panicked" THEN {"Error(blocks_task join error)"} ELSE {})
    \cup (IF x.pools = "ended" THEN {"StreamEnded(pools)"} ELSE {})
    \cup (IF SHUTDOWN_FLAG \/ x.blocks.pc = "shutdown" \/ x.pools = "done"
             \/ x.poller.pc = "done"
          THEN {"Shutdown"} ELSE {})

\* the log run_forever writes for the reason
ReasonLog(reason) ==
    CASE reason = "IdleTimeout" -> EvLog("WARNING", "no data for 30 s, reconnecting")
      [] reason \in {"StreamEnded(blocks)", "StreamEnded(pools)"} ->
             EvLog("WARNING", "stream ended, reconnecting")
      [] reason = "Shutdown" -> EvLog("INFO", "websocket shutting down")
      [] OTHER -> EvLog("ERROR", "websocket error, reconnecting")

\* run_forever going from a session that ended to the next attempt without
\* announcing the disconnect
MonitorSessionEnd_Unannounced(s, reason) ==
    LET head == LoopHead(monitor.attempt) IN
    /\ monitor.pc = "live"
    /\ s = Len(sessions)
    /\ reason \in SessionReasons(s)
    /\ monitor' = [monitor EXCEPT !.pc = head.pc, !.attempt = head.attempt]
    /\ TaskEmits(<<ReasonLog(reason)>> \o head.events)
    /\ UNCHANGED <<SHUTDOWN_FLAG, RPC_POOL, coreVars, engine, sessions, trades,
                   histVars>>
    /\ UNCHANGED fuelVars

\* run_subscriptions_and_wait returns reason: Shutdown leaves the loop; any
\* other reason is announced, then the sleep and the head of the next
\* iteration.  The children that have not returned are left running.
MonitorSessionEnd(s, reason) ==
    LET head == LoopHead(monitor.attempt) IN
    /\ monitor.pc = "live"
    /\ s = Len(sessions)
    /\ reason \in SessionReasons(s)
    /\ IF reason = "Shutdown"
       THEN /\ monitor' = [monitor EXCEPT !.pc = "done"]
            /\ TaskEmits(<<ReasonLog(reason)>>)
       ELSE /\ monitor' = [monitor EXCEPT !.pc = head.pc, !.attempt = head.attempt]
            /\ TaskEmits(<<ReasonLog(reason), EvConnectionStatus(FALSE, reason)>>
                         \o head.events)
    /\ UNCHANGED <<SHUTDOWN_FLAG, RPC_POOL, coreVars, engine, sessions, trades,
                   histVars>>
    /\ UNCHANGED fuelVars

(***************************************************************************)
(* The block stream (blocks_task) and the auto-fuel job it awaits inline.   *)
(* A step runs from one await (or lock acquisition) to the next.            *)
(***************************************************************************)
\* the token string of a native BalanceUpdate
NativeToken == "0xeeee"

\* blocks a session's subscription may deliver
MaxBlocks == 2

current_timestamp_ms == now * ClockUnit

\* the attempt cap and the cooldown (ms) of the fuel check
MaxFuelAttempts == 5
FuelCooldownMs == 60000

\* auto_fuel_attempts.get(&wallet).unwrap_or(&(0, 0))
Attempts(w) ==
    IF w \in DOMAIN auto_fuel_attempts THEN auto_fuel_attempts[w] ELSE <<0, 0>>

\* the fuel check with the balance compared by <= instead of <
FuelDue_AtThreshold(w, balance) ==
    /\ fuel_enabled
    /\ balance <= fuel_threshold
    /\ fuel_quote_address # ZeroAddress
    /\ Attempts(w)[1] < MaxFuelAttempts
    /\ current_timestamp_ms - Attempts(w)[2] > FuelCooldownMs

\* the fuel check of blocks_task, made under one read lock
FuelDue(w, balance) ==
    /\ fuel_enabled
    /\ balance < fuel_threshold
    /\ fuel_quote_address # ZeroAddress
    /\ Attempts(w)[1] < MaxFuelAttempts
    /\ current_timestamp_ms - Attempts(w)[2] > FuelCooldownMs

\* fuel_job: the arguments of run_auto_fuel, when the check passes and the
\* wallet has a key
fuel_job(w, balance) ==
    IF FuelDue(w, balance) /\ w \in DOMAIN wallet_keys
    THEN Some([pk |-> wallet_keys[w], wallet |-> w, router |-> router_address,
               quote |-> fuel_quote_address, amount |-> fuel_amount])
    ELSE None

\* the positions of blocks_task inside a fuel job
JobPcs == {"count", "stamp", "call", "fuel_balance", "fuel_allowance",
           "fuel_approve", "fuel_swap", "fuel_withdraw"}

\* the positions at which blocks_task has returned (or died)
BlocksOver == {"idle", "ended", "shutdown", "panicked"}

\* the wallet loop moves past its current wallet
NextWallet(b) ==
    LET rest == Tail(b.todo) IN
    [b EXCEPT !.todo = rest, !.job = None,
              !.pc = IF rest = <<>> THEN "wait" ELSE "balance"]

\* the entry a new attempt writes before run_auto_fuel, without the increment
StampedEntry_NoIncrement(count) == <<count, current_timestamp_ms>>

\* (new_count, current_timestamp_ms()), new_count being the count read + 1
StampedEntry(count) == <<count + 1, current_timestamp_ms>>

\* run_auto_fuel, or blocks_task before it, moves to pc; sign: a transaction
\* was signed and handed to parallel_broadcast
JobAt(b, pc, evs, sign) ==
    [b |-> [b EXCEPT !.pc = pc], evs |-> evs, sign |-> sign, done |-> FALSE,
     success |-> FALSE, insert |-> FALSE, bump |-> FALSE]

\* run_auto_fuel returns success after evs: a success resets the wallet's
\* entry, then the balance is announced and the wallet loop goes on
JobDone(b, success, insert, evs) ==
    [b |-> [NextWallet(b) EXCEPT !.last = IF success THEN "ok" ELSE "failed"],
     evs |-> evs \o <<EvBalanceUpdate(b.job.val.wallet, NativeToken, b.balance,
                                     "NATIVE")>>,
     sign |-> FALSE, done |-> TRUE, success |-> success, insert |-> insert,
     bump |-> insert]

\* run_auto_fuel returns false after evs and an AutoFuelError with the reason
Failed_Reported(b, reason, evs) ==
    JobDone(b, FALSE, FALSE, evs \o <<EvAutoFuelError(b.job.val.wallet, reason)>>)

\* run_auto_fuel returns false for the reason having emitted evs only
Failed(b, reason, evs) == JobDone(b, FALSE, FALSE, evs)

\* the swap of run_auto_fuel: sign and broadcast
SwapStage(b, evs) == JobAt(b, "fuel_swap", evs, TRUE)

\* the step r after a broadcast that returned a hash: nonce_map gets the
\* transaction's nonce + 1
Bumped(r) == [r EXCEPT !.bump = TRUE]

SetBlocks(s, b) == sessions' = [sessions EXCEPT ![s].blocks = b]

\* the step r of session s's blocks_task takes effect; a step that takes the
\* CORE_STATE lock while it is poisoned panics instead
FuelApply(s, r, locks) ==
    LET b == sessions[s].blocks
        w == b.job.val.wallet
        panics == locks /\ poisoned
        bumps == ~panics /\ r.bump
        nonces == IF bumps THEN MapPut(nonce_map, w, b.nonce + 1) ELSE nonce_map
    IN /\ SetBlocks(s, IF panics THEN [b EXCEPT !.pc = "panicked"]
                       ELSE IF r.sign THEN [r.b EXCEPT !.hash = txCount + 1,
                                                       !.nonce = NonceOf(nonces, w)]
                       ELSE r.b)
       /\ txCount' = IF ~panics /\ r.sign THEN txCount + 1 ELSE txCount
       /\ auto_fuel_attempts' = IF ~panics /\ r.success
                                THEN MapPut(auto_fuel_attempts, w, <<0, 0>>)
                                ELSE auto_fuel_attempts
       /\ pending_txs' = IF ~panics /\ r.insert THEN pending_txs \cup {b.hash}
                         ELSE pending_txs
       /\ nonce_map' = nonces
       /\ nonceLog' = IF r.bump THEN Append(nonceLog, Sent(w, b.nonce, b.pc))
                      ELSE nonceLog
       /\ TaskEmits(IF panics THEN <<>> ELSE r.evs)
       /\ UNCHANGED <<SHUTDOWN_FLAG, RPC_POOL, selected_pool_type,
                      selected_pool_address,
                      selected_pool_liquidity_usd, selected_pool_spot_price,
                      v2_reserves, v3_states, wallet_keys,
                      router_address, usd_prices, poisoned, engine, monitor, trades,
                      epoch, signedAt, bcastLog, lastPoll, lastCmd>>
       /\ UNCHANGED <<TRACKED_WALLETS, wrapped_native_address, fuel_enabled,
                      fuel_threshold, fuel_amount, fuel_quote_address, now, fuelLog, lockAt,
                      pnlVars>>

BlockOutcomes == {"block", "none", "timeout"}

\* blocks_task at the top of its loop: leave on shutdown, else wait up to
\* IDLE_TIMEOUT_SECS for the next block; gas: get_gas_price's answer
BlocksNext(s, outcome, gas) ==
    LET b == sessions[s].blocks IN
    /\ b.pc = "wait"
    /\ b.seen < MaxBlocks
    /\ IF SHUTDOWN_FLAG
       THEN SetBlocks(s, [b EXCEPT !.pc = "shutdown"]) /\ UNCHANGED bridgeVars
       ELSE IF outcome = "none"
       THEN SetBlocks(s, [b EXCEPT !.pc = "ended"]) /\ UNCHANGED bridgeVars
       ELSE IF outcome = "timeout"
       THEN SetBlocks(s, [b EXCEPT !.pc = "idle"]) /\ UNCHANGED bridgeVars
       ELSE IF gas.some /\ poisoned
       THEN SetBlocks(s, [b EXCEPT !.pc = "panicked"]) /\ UNCHANGED bridgeVars
       ELSE /\ SetBlocks(s, [b EXCEPT !.seen = @ + 1, !.todo = b.wallets,
                                      !.pc = IF b.wallets = <<>> THEN "wait"
                                             ELSE "balance"])
            /\ TaskEmits(IF gas.some THEN <<EvGasPriceUpdate(gas.val)>> ELSE <<>>)
    /\ UNCHANGED <<SHUTDOWN_FLAG, RPC_POOL, coreVars, engine, monitor, trades,
                   histVars>>
    /\ UNCHANGED fuelVars

\* get_balance answers for the wallet at the head of the loop: an error
\* skips the wallet; else the fuel check, and the BalanceUpdate when no job
\* is due
BlocksBalance(s, r) ==
    LET b == sessions[s].blocks
        w == Head(b.todo)
        job == fuel_job(w, r.val)
    IN /\ b.pc = "balance"
       /\ IF ~r.some
          THEN SetBlocks(s, NextWallet(b)) /\ UNCHANGED bridgeVars
          ELSE IF poisoned
          THEN SetBlocks(s, [b EXCEPT !.pc = "panicked"]) /\ UNCHANGED bridgeVars
          ELSE IF job.some
          THEN /\ SetBlocks(s, [b EXCEPT !.pc = "count", !.balance = r.val,
                                         !.job = job])
               /\ UNCHANGED bridgeVars
          ELSE /\ SetBlocks(s, NextWallet(b))
               /\ TaskEmits(<<EvBalanceUpdate(w, NativeToken, r.val, "NATIVE")>>)
       /\ UNCHANGED <<SHUTDOWN_FLAG, RPC_POOL, coreVars, engine, monitor, trades,
                      histVars>>
       /\ UNCHANGED fuelVars

\* the second read lock: new_count = the wallet's count + 1
FuelCount(s) ==
    LET b == sessions[s].blocks IN
    /\ b.pc = "count"
    /\ FuelApply(s, JobAt([b EXCEPT !.entry = StampedEntry(Attempts(b.job.val.wallet)[1])],
                          "stamp", <<>>, FALSE), TRUE)

\* the write lock: insert (new_count, current_timestamp_ms())
FuelStamp(s) ==
    LET b == sessions[s].blocks
        w == b.job.val.wallet
        entry == <<b.entry[1], current_timestamp_ms>>
    IN /\ b.pc = "stamp"
       /\ SetBlocks(s, [b EXCEPT !.pc = IF poisoned THEN "panicked" ELSE "call",
                                 !.entry = entry])
       /\ auto_fuel_attempts' = IF poisoned THEN auto_fuel_attempts
                                ELSE MapPut(auto_fuel_attempts, w, entry)
       /\ fuelLog' = IF poisoned THEN fuelLog
                     ELSE Append(fuelLog, [wallet |-> w, session |-> s,
                                           at |-> current_timestamp_ms])
       /\ UNCHANGED <<bridgeVars, SHUTDOWN_FLAG, RPC_POOL, coreVars, engine, monitor,
                      trades, histVars>>
       /\ UNCHANGED <<TRACKED_WALLETS, wrapped_native_address, fuel_enabled,
                      fuel_threshold, fuel_amount, fuel_quote_address, now, lockAt,
                      pnlVars>>

\* run_auto_fuel up to its first await: a zero amount returns at once; the
\* wrapped native token is withdrawn, any other quote is swapped through the
\* fastest node
FuelCall(s) ==
    LET b == sessions[s].blocks
        job == b.job.val
    IN /\ b.pc = "call"
       /\ IF job.amount = 0
          THEN FuelApply(s, Failed(b, "zero amount", <<>>), FALSE)
          ELSE IF job.quote = wrapped_native_address
          THEN FuelApply(s, JobAt(b, "fuel_withdraw",
                                  <<EvLog("INFO", "auto-fuel withdraw")>>, TRUE), TRUE)
          ELSE IF ~get_fastest_node(RPC_POOL).some
          THEN FuelApply(s, Failed(b, "no RPC node",
                                   <<EvLog("INFO", "auto-fuel swap")>>), TRUE)
          ELSE FuelApply(s, JobAt(b, "fuel_balance",
                                  <<EvLog("INFO", "auto-fuel swap")>>, FALSE), TRUE)

\* the withdraw's parallel_broadcast answers
FuelWithdrawBroadcast(s, ok) ==
    LET b == sessions[s].blocks IN
    /\ b.pc = "fuel_withdraw"
    /\ IF ok
       THEN FuelApply(s, JobDone(b, TRUE, TRUE,
                                 <<EvLog("INFO", "auto-fuel withdraw tx")>>), TRUE)
       ELSE FuelApply(s, Failed(b, "withdraw failed",
                                <<EvLog("INFO", "auto-fuel withdraw tx")>>), FALSE)

\* balance_of(wallet) of the quote token answers
FuelBalanceOf(s, r) ==
    LET b == sessions[s].blocks IN
    /\ b.pc = "fuel_balance"
    /\ IF r.some /\ r.val < b.job.val.amount
       THEN FuelApply(s, Failed_Reported(b, "insufficient token",
                              <<EvLog("ERROR", "auto-fuel: insufficient token")>>),
                      FALSE)
       ELSE FuelApply(s, JobAt(b, "fuel_allowance", <<>>, FALSE), FALSE)

\* allowance(wallet, router) answers: approve when it is short
FuelAllowance(s, r) ==
    LET b == sessions[s].blocks IN
    /\ b.pc = "fuel_allowance"
    /\ IF r.some /\ r.val < b.job.val.amount
       THEN FuelApply(s, JobAt(b, "fuel_approve",
                               <<EvLog("INFO", "auto-fuel: approve needed")>>, TRUE),
                      TRUE)
       ELSE FuelApply(s, SwapStage(b, <<>>), TRUE)

\* the approve's parallel_broadcast answers; on a hash, 3 s later the swap
FuelApproveBroadcast(s, ok) ==
    LET b == sessions[s].blocks IN
    /\ b.pc = "fuel_approve"
    /\ IF ok
       THEN FuelApply(s, Bumped(SwapStage(b, <<EvLog("INFO", "auto-fuel approve tx")>>)),
                      TRUE)
       ELSE FuelApply(s, Failed_Reported(b, "Approve failed",
                                         <<EvLog("INFO", "auto-fuel approve tx")>>),
                      FALSE)

\* the swap's parallel_broadcast answers
FuelSwapBroadcast(s, ok) ==
    LET b == sessions[s].blocks IN
    /\ b.pc = "fuel_swap"
    /\ IF ok
       THEN FuelApply(s, JobDone(b, TRUE, TRUE,
                                 <<EvLog("SUCCESS", "auto-fuel swap tx"),
                                   EvTxSent(HexHash(b.hash), b.job.val.wallet,
                                            "auto_fuel")>>), TRUE)
       ELSE FuelApply(s, Failed_Reported(b, "Swap failed", <<>>), FALSE)

\* time passes
Tick ==
    /\ now < MaxClock
    /\ now' = now + 1
    /\ UNCHANGED <<bridgeVars, SHUTDOWN_FLAG, RPC_POOL, coreVars, taskVars, histVars>>
    /\ UNCHANGED <<TRACKED_WALLETS, wrapped_native_address, fuel_enabled,
                   fuel_threshold, fuel_amount, fuel_quote_address,
                   auto_fuel_attempts, fuelLog, lockAt,
                   pnlVars>>

(***************************************************************************)
(* Trade execution (execution.rs).  Amounts are in wei; a token unit is     *)
(* WeiPerUnit wei (10^dec in the program, scaled down here).                *)
(***************************************************************************)
WeiPerUnit == 100

\* ethers' parse_units(amount, dec)
parse_units(amount) == amount * WeiPerUnit

\* (10000.0 - slippage * 100.0).max(0.0).min(10000.0) as u64
slippage_factor(slippage) ==
    LET f == 10000 - slippage * 100 IN
    IF f < 0 THEN 0 ELSE IF f > 10000 THEN 10000 ELSE f

\* the quote with the reserves bound the other way round: reserve0 to the
\* higher of the two addresses
calculate_expected_out_v2_pure_Swapped(token_in, token_out, amount_in) ==
    IF amount_in = 0 THEN [out |-> 0, logs |-> <<>>]
    ELSE IF ~selected_pool_address.some
    THEN [out |-> 0, logs |-> <<EvLog("WARNING", "selected_pool_address is None")>>]
    ELSE IF selected_pool_address.val \notin DOMAIN v2_reserves
    THEN [out |-> 0, logs |-> <<EvLog("WARNING", "no reserves for pool")>>]
    ELSE LET r0 == v2_reserves[selected_pool_address.val][1]
             r1 == v2_reserves[selected_pool_address.val][2]
             r_in == IF AddrLess(token_in, token_out) THEN r1 ELSE r0
             r_out == IF AddrLess(token_in, token_out) THEN r0 ELSE r1
             amount_in_with_fee == amount_in * 9970
         IN IF r0 = 0 \/ r1 = 0
            THEN [out |-> 0, logs |-> <<EvLog("WARNING", "zero reserves")>>]
            ELSE [out |-> (amount_in_with_fee * r_out)
                              \div (r_in * 10000 + amount_in_with_fee),
                  logs |-> <<>>]

\* calculate_expected_out_v2_pure: the amount and the warning it logs
calculate_expected_out_v2_pure(token_in, token_out, amount_in) ==
    IF amount_in = 0 THEN [out |-> 0, logs |-> <<>>]
    ELSE IF ~selected_pool_address.some
    THEN [out |-> 0, logs |-> <<EvLog("WARNING", "selected_pool_address is None")>>]
    ELSE IF selected_pool_address.val \notin DOMAIN v2_reserves
    THEN [out |-> 0, logs |-> <<EvLog("WARNING", "no reserves for pool")>>]
    ELSE LET r0 == v2_reserves[selected_pool_address.val][1]
             r1 == v2_reserves[selected_pool_address.val][2]
             r_in == IF AddrLess(token_in, token_out) THEN r0 ELSE r1
             r_out == IF AddrLess(token_in, token_out) THEN r1 ELSE r0
             amount_in_with_fee == amount_in * 9970
             numerator == amount_in_with_fee * r_out
             denominator == r_in * 10000 + amount_in_with_fee
         IN IF r0 = 0 \/ r1 = 0
            THEN [out |-> 0, logs |-> <<EvLog("WARNING", "zero reserves")>>]
            ELSE [out |-> numerator \div denominator, logs |-> <<>>]

\* the sell amount: the exact wei handed over for the wallet, else zero
SellAmount(amounts_wei, wallet_addr) ==
    IF amounts_wei.some /\ wallet_addr \in DOMAIN amounts_wei.val
    THEN amounts_wei.val[wallet_addr] ELSE 0

TokenIn(tr) == IF tr.action = "buy" THEN "0xquote" ELSE "0xtoken"
TokenOut(tr) == IF tr.action = "buy" THEN "0xtoken" ELSE "0xquote"

\* sign the swap with min_out derived from exp_out; next await: broadcast
SwapSign(tr, exp_out, logs) ==
    [tr |-> [tr EXCEPT !.exp_out = exp_out,
                       !.min_out = (exp_out * slippage_factor(tr.slippage)) \div 10000,
                       !.pc = "swap_bcast"],
     logs |-> logs]

\* the expected-out stage: V3 awaits the quoter when a node is eligible
QuoteStage(tr) ==
    IF tr.p_type = "V3"
    THEN IF get_fastest_node(RPC_POOL).some
         THEN [tr |-> [tr EXCEPT !.pc = "quote"], logs |-> <<>>]
         ELSE SwapSign(tr, 0, <<>>)
    ELSE LET v2 == calculate_expected_out_v2_pure(TokenIn(tr), TokenOut(tr),
                                                  tr.amount_wei)
         IN SwapSign(tr, v2.out, v2.logs)

\* the sell branch once the allowance is known
AllowanceStage(tr, allowance) ==
    IF allowance < tr.amount_wei
    THEN [tr |-> [tr EXCEPT !.pc = "approve_bcast"],
          logs |-> <<EvLog("WARNING", "auto-approve required")>>]
    ELSE QuoteStage(tr)

RECURSIVE WalletLoop(_)
\* `for pk in keys` up to its next await (or the return)
WalletLoop(tr) ==
    IF tr.keys = <<>> THEN [tr |-> [tr EXCEPT !.pc = "return"], logs |-> <<>>]
    ELSE LET w == KeyAddress(Head(tr.keys))
             amount_wei == IF tr.action = "sell" THEN SellAmount(tr.amounts_wei, w)
                           ELSE parse_units(tr.amount)
             t1 == [tr EXCEPT !.keys = Tail(@), !.wallet = w, !.amount_wei = amount_wei,
                              !.nonce = NonceOf(nonce_map, w)]
         IN IF amount_wei = 0
            THEN WalletLoop([t1 EXCEPT !.events = Append(@,
                     EvTradeStatus(w, tr.action, "Error",
                         Text(IF tr.action = "sell" THEN "Zero balance to sell"
                              ELSE "Invalid amount"), None))])
            ELSE IF tr.action = "sell"
            THEN IF tr.url.some THEN [tr |-> [t1 EXCEPT !.pc = "allowance"], logs |-> <<>>]
                 ELSE AllowanceStage(t1, 0)
            ELSE QuoteStage(t1)

\* the task continues from r.tr having logged r.logs after emitting evs; a
\* transaction signed on the way gets the next hash
Continue(t, evs, r) ==
    LET signs == r.tr.pc \in {"approve_bcast", "swap_bcast"} IN
    /\ trades' = [trades EXCEPT ![t] = IF signs THEN [r.tr EXCEPT !.hash = txCount + 1]
                                       ELSE r.tr]
    /\ txCount' = IF signs THEN txCount + 1 ELSE txCount
    /\ signedAt' = IF signs THEN MapPut(signedAt, txCount + 1, epoch) ELSE signedAt
    /\ TaskEmits(evs \o r.logs)

TradePanic(t) == trades' = [trades EXCEPT ![t].pc = "panicked"]

\* run_batch_trade starts: read the selected pool type, pick the node
TradeStart(t) ==
    /\ trades[t].pc = "start"
    /\ IF poisoned
       THEN /\ TradePanic(t)
            /\ UNCHANGED <<bridgeVars, txCount, signedAt>>
       ELSE LET p_type == UnwrapOr(selected_pool_type, "")
                tr == [trades[t] EXCEPT !.p_type = p_type,
                                        !.url = get_fastest_node(RPC_POOL)]
            IN IF p_type = ""
               THEN Continue(t, <<>>,
                        [tr |-> [tr EXCEPT !.pc = "return", !.events =
                                    <<EvTradeStatus("SYSTEM", tr.action, "Error",
                                                    Text("No pool selected!"), None)>>],
                         logs |-> <<>>])
               ELSE Continue(t, <<>>, WalletLoop(tr))
    /\ UNCHANGED <<SHUTDOWN_FLAG, RPC_POOL, coreVars, engine, monitor, sessions, epoch,
                   bcastLog, nonceLog, lastPoll, lastCmd>>
    /\ UNCHANGED fuelVars

\* erc20.allowance(wallet, router) returns (an Err leaves the allowance 0)
TradeAllowance(t, allowance) ==
    /\ trades[t].pc = "allowance"
    /\ IF poisoned /\ allowance >= trades[t].amount_wei
       THEN /\ TradePanic(t)
            /\ UNCHANGED <<bridgeVars, txCount, signedAt>>
       ELSE Continue(t, <<>>, AllowanceStage(trades[t], allowance))
    /\ UNCHANGED <<SHUTDOWN_FLAG, RPC_POOL, coreVars, engine, monitor, sessions, epoch,
                   bcastLog, nonceLog, lastPoll, lastCmd>>
    /\ UNCHANGED fuelVars

\* the quoter call returns: Some(amount_out), or None for a revert or error
TradeQuote(t, quoted) ==
    /\ trades[t].pc = "quote"
    /\ Continue(t, <<>>,
           SwapSign(trades[t], UnwrapOr(quoted, 0),
                    <<IF quoted.some THEN EvLog("DEBUG", "V3 quoter result")
                      ELSE EvLog("WARNING", "V3 quoter error")>>))
    /\ UNCHANGED <<SHUTDOWN_FLAG, RPC_POOL, coreVars, engine, monitor, sessions, epoch,
                   bcastLog, nonceLog, lastPoll, lastCmd>>
    /\ UNCHANGED fuelVars

\* the urls of the pool's nodes
Urls(nodes) == {nodes[i].url : i \in 1..Len(nodes)}

\* the sets of nodes that may accept a broadcast: none, any single one, all
AcceptSets(nodes) == {{}, Urls(nodes)} \cup {{u} : u \in Urls(nodes)}

\* one parallel_broadcast call of a trade task, for the history: what was
\* broadcast, the string returned, whether any node of the pool would have
\* accepted (offered) and whether one it was sent to did (reached)
Broadcast(tr, kind, accepts, str) ==
    [kind |-> kind, wallet |-> tr.wallet, hash |-> tr.hash, result |-> str,
     exp_out |-> tr.exp_out, min_out |-> tr.min_out,
     offered |-> accepts # {},
     reached |-> \E i \in 1..Len(get_fastest_pool(RPC_POOL, 3)) :
                    get_fastest_pool(RPC_POOL, 3)[i] \in accepts]

\* the approve broadcast returns: TxSent at once, TradeStatus "Sent" queued
\* for the return, then the next wallet
TradeApproveBroadcast(t, accepts) ==
    LET tr == trades[t]
        hash == parallel_broadcast(RPC_POOL, tr.hash, accepts)
        sent == EvTxSent(hash, tr.wallet, "approve")
        t1 == [tr EXCEPT !.events = Append(@,
                  EvTradeStatus(tr.wallet, "approve", "Sent",
                                Text("Auto-Approve sent. Please retry SELL after confirmation."),
                                Some(hash)))]
    IN /\ tr.pc = "approve_bcast"
       /\ IF poisoned /\ tr.keys # <<>>
          THEN /\ TradePanic(t)
               /\ TaskEmits(<<sent>>)
               /\ UNCHANGED <<txCount, signedAt>>
          ELSE Continue(t, <<sent>>, WalletLoop(t1))
       /\ UNCHANGED <<SHUTDOWN_FLAG, RPC_POOL, coreVars, engine, monitor, sessions,
                      epoch, lastPoll, lastCmd>>
       /\ bcastLog' = Append(bcastLog, Broadcast(tr, "approve", accepts, hash))
       /\ nonceLog' = IF StartsWith0x(hash)
                      THEN Append(nonceLog, Sent(tr.wallet, tr.nonce, "approve"))
                      ELSE nonceLog
       /\ UNCHANGED fuelVars

\* the swap broadcast returns: on a "0x" hash insert it into pending_txs and
\* emit TxSent; queue TradeStatus Sent or Error; then the next wallet
TradeSwapBroadcast(t, accepts) ==
    LET tr == trades[t]
        hash == parallel_broadcast(RPC_POOL, tr.hash, accepts)
        is_success == StartsWith0x(hash)
        t1 == [tr EXCEPT !.events = Append(@,
                  EvTradeStatus(tr.wallet, tr.action,
                                IF is_success THEN "Sent" ELSE "Error", hash,
                                IF is_success THEN Some(hash) ELSE None))]
    IN /\ tr.pc = "swap_bcast"
       /\ IF poisoned /\ (is_success \/ tr.keys # <<>>)
          THEN /\ TradePanic(t)
               /\ UNCHANGED <<bridgeVars, pending_txs, txCount, signedAt>>
          ELSE /\ pending_txs' = IF is_success THEN pending_txs \cup {tr.hash}
                                 ELSE pending_txs
               /\ Continue(t, IF is_success
                              THEN <<EvTxSent(hash, tr.wallet, tr.action)>>
                              ELSE <<>>,
                           WalletLoop(t1))
       /\ UNCHANGED <<SHUTDOWN_FLAG, RPC_POOL, selected_pool_type,
                      selected_pool_address,
                      selected_pool_liquidity_usd, selected_pool_spot_price,
                      v2_reserves, v3_states, wallet_keys,
                      router_address, usd_prices, nonce_map, poisoned, engine, monitor, sessions,
                      epoch, lastPoll, lastCmd>>
       /\ bcastLog' = Append(bcastLog, Broadcast(tr, "swap", accepts, hash))
       /\ nonceLog' = IF is_success
                      THEN Append(nonceLog, Sent(tr.wallet, tr.nonce, "swap"))
                      ELSE nonceLog
       /\ UNCHANGED fuelVars

\* run_batch_trade returned: the spawning closure emits its events
TradeReturn(t) ==
    /\ trades[t].pc = "return"
    /\ trades' = [trades EXCEPT ![t].pc = "done"]
    /\ TaskEmits(trades[t].events)
    /\ UNCHANGED <<SHUTDOWN_FLAG, RPC_POOL, coreVars, engine, monitor, sessions,
                   histVars>>
    /\ UNCHANGED fuelVars

(***************************************************************************)
(* The engine with well-formed commands: Init, SwitchToken and ExecuteTrade *)
(* in any order, the supervisor, the poller and the trade tasks.            *)
(***************************************************************************)
GoodInit ==
    [router |-> "0xrouter", quoter |-> "0xquoter", rpc_url |-> "rpc",
     public_rpc_urls |-> <<>>, wallets |-> <<<<"0xwa", "kA">>, <<"0xwb", "kB">>>>,
     quote_symbol |-> "Q", wrapped_native |-> "0xwnative",
     fuel_settings |-> [auto_fuel_enabled |-> FALSE, auto_fuel_threshold |-> 0,
                        auto_fuel_amount |-> 0, fuel_quote_address |-> ""]]

GoodSwitch ==
    [token_address |-> "0xtoken", quote_address |-> "0xquote", quote_symbol |-> "Q"]

TradeCommand(action, amounts_wei) ==
    [action |-> action, token |-> "0xtoken", quote_token |-> "0xquote", amount |-> 1,
     wallets |-> <<"0xwa", "0xwb">>, slippage |-> 1, amounts_wei |-> amounts_wei]

\* a buy for both wallets; a sell with the exact balance of the first wallet
\* (the second has nothing to sell)
TradeCommands ==
    {TradeCommand("buy", None), TradeCommand("sell", Some([w \in {"0xwa"} |-> 100]))}

PrefetchResults ==
    {PrefetchNone, PrefetchFailed, PrefetchV2(2000, 1000, TRUE),
     PrefetchV3(U256(0, 1), 50, TRUE)}

AllowanceValues == {0, 100}
QuoteResults == {None, Some(150)}

Sessions == 1..Len(sessions)
Trades == 1..Len(trades)

PoolKinds == {"none", "V2", "V3"}

NextTrade ==
    \/ CmdInitBegin(GoodInit)
    \/ CmdInitFinish
    \/ CmdSwitchToken(GoodSwitch)
    \/ \E c \in TradeCommands : CmdExecuteTrade(c)
    \/ \E f \in PoolKinds : MonitorDiscover(f)
    \/ \E r \in PrefetchResults : MonitorPrefetch(r)
    \/ MonitorConnect
    \/ \E s \in Sessions : PollerTick(s)
    \/ \E s \in Sessions, o \in ReceiptOutcomes : PollerReceipt(s, o)
    \/ \E t \in Trades : TradeStart(t)
    \/ \E t \in Trades, a \in AllowanceValues : TradeAllowance(t, a)
    \/ \E t \in Trades, q \in QuoteResults : TradeQuote(t, q)
    \/ \E t \in Trades, acc \in AcceptSets(RPC_POOL) : TradeApproveBroadcast(t, acc)
    \/ \E t \in Trades, acc \in AcceptSets(RPC_POOL) : TradeSwapBroadcast(t, acc)
    \/ \E t \in Trades : TradeReturn(t)

SpecTrade == Init /\ [][NextTrade]_vars

Range(q) == {q[i] : i \in 1..Len(q)}

\* the JSON blobs of kind k sent to the consumer so far
SentOfKind(k) == {j \in Range(Delivered) : j.type = k}

\* the hashes swaps have put into pending_txs: the insert precedes TxSent
Inserted ==
    {j.data.tx_hash.hex : j \in {k \in SentOfKind("TxSent") : k.data.action # "approve"}}

\* C4: the poller removes a hash from pending_txs exactly when
\* get_transaction_receipt returned a receipt for it, and emits TxConfirmed
\* with the receipt's status at that poll; when the poll returned None or an
\* error the set is left as it was and no TxConfirmed is emitted.  A hash a
\* swap inserted is still pending unless its TxConfirmed was emitted or an
\* Init ran since it was signed.
C4_RemovedOnReceipt ==
    /\ lastPoll.some =>
          LET p == lastPoll.val
              confirmed == EvTxConfirmed(HexHash(p.hash), p.outcome)
          IN IF IsReceipt(p.outcome)
             THEN /\ p.after = p.before \ {p.hash}
                  /\ confirmed \in Range(p.emitted)
                  /\ ToJson(confirmed) \in SentOfKind("TxConfirmed")
             ELSE /\ p.after = p.before
                  /\ \A e \in Range(p.emitted) : e.type # "TxConfirmed"
    /\ \A j \in SentOfKind("TxConfirmed") : j.data.tx_hash.hex \notin pending_txs
    /\ \A h \in Inserted :
          \/ h \in pending_txs
          \/ \E j \in SentOfKind("TxConfirmed") : j.data.tx_hash = HexHash(h)
          \/ signedAt[h] < epoch

C4_Witness ==
    /\ lastPoll.some
    /\ IsReceipt(lastPoll.val.outcome)
    /\ lastPoll.val.hash \in lastPoll.val.before
    /\ pending_txs # {}
    /\ \E j \in SentOfKind("TxConfirmed") : j.data.tx_hash = HexHash(lastPoll.val.hash)

\* C5: no pending entry survives a re-initialisation: whatever trade task is
\* running while Init is processed, every hash in pending_txs belongs to a
\* transaction signed since the last Init completed.
C5_NoPendingAcrossInit == \A h \in pending_txs : signedAt[h] = epoch

\* C6: TxSent and a TradeStatus with status "Sent" are emitted only for a
\* transaction whose broadcast returned a hash, in the swap branch and in the
\* auto-approve branch alike.
C6_SentOnlyOnSuccess ==
    /\ \A j \in SentOfKind("TxSent") : StartsWith0x(j.data.tx_hash)
    /\ \A j \in SentOfKind("TradeStatus") :
          j.data.status = "Sent" =>
              j.data.tx_hash.some /\ StartsWith0x(j.data.tx_hash.val)

\* C8: trades fail closed: no swap is broadcast when the expected output is
\* zero or unknown (min_out would be zero).
C8_FailClosed == \A b \in Range(bcastLog) : b.kind = "swap" => b.exp_out > 0

(***************************************************************************)
(* rpc_health_checker: every round probes the urls it was spawned with, in  *)
(* order.  The failure counter is kept up to MaxNodeFails: every larger     *)
(* value is read the same way (fails < 3 is its only use).                  *)
(***************************************************************************)
mark_fail_capped(nodes, url) ==
    LET i == FindNode(nodes, url) IN
    IF i # 0 /\ nodes[i].fails >= MaxNodeFails THEN nodes ELSE mark_fail(nodes, url)

\* the 10 s tick: leave on shutdown, else start a round
RpcTick ==
    /\ engine.rpc_checker.on
    /\ engine.rpc_checker.pos = 0
    /\ engine' = IF SHUTDOWN_FLAG THEN [engine EXCEPT !.rpc_checker = NoChecker]
                 ELSE [engine EXCEPT !.rpc_checker.pos =
                          IF engine.rpc_checker.urls = <<>> THEN 0 ELSE 1]
    /\ UNCHANGED <<bridgeVars, SHUTDOWN_FLAG, RPC_POOL, coreVars, monitor, sessions,
                   trades, histVars>>
    /\ UNCHANGED fuelVars

\* get_block_number answered within 2 s (latency measured) or timed out
RpcProbe(latency) ==
    LET ck == engine.rpc_checker
        url == ck.urls[ck.pos]
    IN /\ ck.on
       /\ ck.pos > 0
       /\ RPC_POOL' = IF latency.some THEN update_latency(RPC_POOL, url, latency.val)
                      ELSE mark_fail_capped(RPC_POOL, url)
       /\ engine' = [engine EXCEPT !.rpc_checker.pos =
                        IF ck.pos = Len(ck.urls) THEN 0 ELSE ck.pos + 1]
       /\ UNCHANGED <<bridgeVars, SHUTDOWN_FLAG, coreVars, monitor, sessions, trades,
                      histVars>>
       /\ UNCHANGED fuelVars

(***************************************************************************)
(* The broadcast over a probed pool: an initialised engine with four nodes, *)
(* a V2 pool selected, the bridge drained, and one trade task just spawned; *)
(* the health checker probes the nodes while the task runs.                 *)
(***************************************************************************)
RpcInit == [GoodInit EXCEPT !.public_rpc_urls = <<"a", "b", "c">>]

ProbeLatencies == {None, Some(100)}

\* an exact sell for one wallet: approve or swap, by the allowance found
RpcTradeCommands ==
    {[TradeCommand("sell", Some([w \in {"0xwa"} |-> 100])) EXCEPT !.wallets = <<"0xwa">>]}

InitRpc ==
    /\ InitBridge
    /\ SHUTDOWN_FLAG = FALSE
    /\ RPC_POOL = InitNodes(RpcInit)
    /\ pending_txs = {}
    /\ selected_pool_type = Some("V2")
    /\ selected_pool_address = Some(ThePool)
    /\ selected_pool_liquidity_usd = 4000
    /\ selected_pool_spot_price = 2
    /\ v2_reserves = MapPut(EmptyMap, ThePool, <<2000, 1000>>)
    /\ v3_states = EmptyMap
    /\ wallet_keys = WalletMap(EmptyMap, RpcInit.wallets)
    /\ router_address = "0xrouter"
    /\ usd_prices = EmptyMap
    /\ nonce_map = EmptyMap
    /\ poisoned = FALSE
    /\ engine = [pc |-> "recv", init |-> None, received |-> 3,
                 rpc_checker |-> NewChecker(Append(RpcInit.public_rpc_urls,
                                                   RpcInit.rpc_url))]
    /\ monitor = [NewMonitor("0xtoken", "0xquote") EXCEPT
                     !.pc = "connect", !.kind = "V2",
                     !.wallets = TrackedOf(RpcInit.wallets), !.attempt = 1]
    /\ sessions = <<>>
    /\ \E c \in RpcTradeCommands :
          trades = <<NewTrade(KeysOf(wallet_keys, c.wallets), router_address, c)>>
    /\ txCount = 0
    /\ epoch = 1
    /\ signedAt = EmptyMap
    /\ bcastLog = <<>>
    /\ nonceLog = <<>>
    /\ lastPoll = None
    /\ lastCmd = Some([kind |-> "ExecuteTrade", bad |-> FALSE])
    /\ TRACKED_WALLETS = TrackedOf(RpcInit.wallets)
    /\ wrapped_native_address = "0xwnative"
    /\ fuel_enabled = FALSE
    /\ fuel_threshold = 0
    /\ fuel_amount = 0
    /\ fuel_quote_address = "0xquote"
    /\ auto_fuel_attempts = EmptyMap
    /\ now = StartClock
    /\ fuelLog = <<>>
    /\ lockAt = NoPaths
    /\ PNL_STATE = EmptyMap
    /\ PNL_TASKS = EmptyMap
    /\ pnl_workers = <<>>

NextRpc ==
    \/ RpcTick
    \/ \E l \in ProbeLatencies : RpcProbe(l)
    \/ \E t \in Trades : TradeStart(t)
    \/ \E t \in Trades, a \in AllowanceValues : TradeAllowance(t, a)
    \/ \E t \in Trades, acc \in AcceptSets(RPC_POOL) : TradeApproveBroadcast(t, acc)
    \/ \E t \in Trades, acc \in AcceptSets(RPC_POOL) : TradeSwapBroadcast(t, acc)
    \/ \E t \in Trades : TradeReturn(t)

SpecRpc == InitRpc /\ [][NextRpc]_vars

NodeOf(nodes, url) == nodes[FindNode(nodes, url)]
EligibleUrls(nodes) == {n.url : n \in {m \in Range(nodes) : m.fails < MaxNodeFails}}
Min(a, b) == IF a < b THEN a ELSE b

\* the step is a parallel_broadcast call returning
Broadcasts == Len(bcastLog') = Len(bcastLog) + 1

\* C7: parallel_broadcast sends the signed transaction to the (up to) three
\* eligible nodes of lowest latency; it returns the transaction hash exactly
\* when at least one of them accepted, otherwise its terminal error text,
\* and then the caller leaves pending_txs as it was.
C7_ParallelBroadcast ==
    [][Broadcasts =>
        LET b == bcastLog'[Len(bcastLog')]
            sent == get_fastest_pool(RPC_POOL, 3)
            urls == Range(sent)
            el == EligibleUrls(RPC_POOL)
        IN /\ Len(sent) = Min(3, Cardinality(el))
           /\ Cardinality(urls) = Len(sent)
           /\ urls \subseteq el
           /\ \A u \in urls, v \in el \ urls :
                 NodeOf(RPC_POOL, u).latency <= NodeOf(RPC_POOL, v).latency
           /\ StartsWith0x(b.result) <=> b.reached
           /\ StartsWith0x(b.result) => b.result = HexHash(b.hash)
           /\ ~StartsWith0x(b.result) =>
                 b.result = AllRpcsFailed /\ pending_txs' = pending_txs]_vars

\* a broadcast that failed although a node of the pool would have accepted
\* it (the node was not among the three it was sent to), with a node of the
\* pool no longer eligible
C7_Witness ==
    /\ \E b \in Range(bcastLog) : b.offered /\ b.result = AllRpcsFailed
    /\ \E n \in Range(RPC_POOL) : n.fails >= MaxNodeFails
    /\ \E n \in Range(RPC_POOL) : n.latency < U128_MAX

(***************************************************************************)
(* The engine with malformed commands and a live pool-log stream: commands  *)
(* whose address strings do not parse, price updates, Swap logs whose       *)
(* sqrtPriceX96 does or does not fit 128 bits, and the supervisor's         *)
(* reaction to a child's join error.                                        *)
(***************************************************************************)
BadRouterInit == [GoodInit EXCEPT !.router = "xyz"]
BadQuoterInit == [GoodInit EXCEPT !.quoter = "xyz"]
BadTokenSwitch == [GoodSwitch EXCEPT !.token_address = "xyz"]
BuyCommand == [TradeCommand("buy", None) EXCEPT !.wallets = <<"0xwa">>]
BadTokenTrade == [BuyCommand EXCEPT !.token = "xyz"]

InitCommands == {GoodInit, BadRouterInit, BadQuoterInit}
SwitchCommands == {GoodSwitch, BadTokenSwitch}
EngineTradeCommands == {BuyCommand, BadTokenTrade}

\* the logs the pool subscription delivers: a Swap whose price fits 128 bits
\* and one whose price is 2^128
PoolLogs == {SwapLog(U256(0, 1), 5), SwapLog(U256(1, 0), 5)}

EngineReceipts == {"success", "none"}

NextEngine ==
    \/ \E c \in InitCommands : CmdInitBegin(c)
    \/ CmdInitFinish
    \/ \E c \in SwitchCommands : CmdSwitchToken(c)
    \/ \E c \in EngineTradeCommands : CmdExecuteTrade(c)
    \/ CmdUpdatePrice("Q", 1)
    \/ \E f \in PoolKinds : MonitorDiscover(f)
    \/ \E r \in PrefetchResults : MonitorPrefetch(r)
    \/ MonitorConnect
    \/ \E s \in Sessions, log \in PoolLogs : PoolLog(s, log)
    \/ \E s \in Sessions : MonitorJoinError(s)
    \/ \E s \in Sessions : PollerTick(s)
    \/ \E s \in Sessions, o \in EngineReceipts : PollerReceipt(s, o)
    \/ \E t \in Trades : TradeStart(t)
    \/ \E t \in Trades : TradeQuote(t, Some(150))
    \/ \E t \in Trades : TradeSwapBroadcast(t, Urls(RPC_POOL))
    \/ \E t \in Trades : TradeReturn(t)

SpecEngine == Init /\ [][NextEngine]_vars

\* the step on which the handler of a command with a malformed address ends
BadCommandHandled ==
    /\ engine.pc \in {"recv", "init_sleep"}
    /\ engine' # engine
    /\ engine'.pc # "init_sleep"
    /\ lastCmd'.some
    /\ lastCmd'.val.bad

\* the events emit_event was called with on this step
EmittedNow == {calls'[i].ev : i \in (Len(calls) + 1)..Len(calls')}

\* C9: a command that carries an unparseable address string is rejected:
\* CORE_STATE and the RPC pool are as before it, a Log of level ERROR is
\* emitted (and a TradeStatus with status "Error" for ExecuteTrade), and the
\* loop is back at recv for the commands that follow.
C9_BadAddressRejected ==
    [][BadCommandHandled =>
          /\ engine'.pc = "recv"
          /\ CoreSnapshot' = CoreSnapshot
          /\ \E e \in EmittedNow : e.type = "Log" /\ e.level = "ERROR"
          /\ lastCmd'.val.kind = "ExecuteTrade" =>
                \E e \in EmittedNow : e.type = "TradeStatus" /\ e.status = "Error"]_vars

\* C10: a panic of a spawned task is contained to that task: no task panics
\* while it holds the CORE_STATE write lock, so the lock is never poisoned,
\* the command loop stops for no well-formed command, and the poller of a
\* session never fails on its access to CORE_STATE.
C10_PanicContained ==
    /\ ~poisoned
    /\ engine.pc = "panicked" => lastCmd.some /\ lastCmd.val.bad
    /\ \A s \in Sessions : sessions[s].poller.pc # "panicked"

(***************************************************************************)
(* The block stream and the auto-fuel job of one WebSocket session.         *)
(* The engine has been initialised with one wallet and an auto-fuel         *)
(* configuration; the supervisor is about to connect.                       *)
(***************************************************************************)
FuelWallets == <<<<"0xwa", "kA">>>>

\* [enabled, quote, amount (BNB), the private node's fails]
FuelConfig(enabled, quote, amount, fails) ==
    [enabled |-> enabled, quote |-> quote, amount |-> amount, fails |-> fails]

\* a swap, a withdraw of the wrapped native token, a zero amount, a pool
\* without an eligible node, no quote token, auto-fuel switched off
FuelConfigs ==
    {FuelConfig(TRUE, "0xquote", 1, 0), FuelConfig(TRUE, "0xwnative", 1, 0),
     FuelConfig(TRUE, "0xquote", 0, 0), FuelConfig(TRUE, "0xquote", 1, MaxNodeFails),
     FuelConfig(TRUE, ZeroAddress, 1, 0), FuelConfig(FALSE, "0xquote", 1, 0)}

\* the wallet's entry when the session starts: none yet, or four failed
\* attempts of which the last is older than the cooldown
FuelHistories == {EmptyMap, MapPut(EmptyMap, "0xwa", <<4, 0>>)}

InitFuel ==
    /\ InitBridge
    /\ SHUTDOWN_FLAG = FALSE
    /\ pending_txs = {}
    /\ selected_pool_type = Some("V2")
    /\ selected_pool_address = Some(ThePool)
    /\ selected_pool_liquidity_usd = 4000
    /\ selected_pool_spot_price = 2
    /\ v2_reserves = MapPut(EmptyMap, ThePool, <<2000, 1000>>)
    /\ v3_states = EmptyMap
    /\ wallet_keys = WalletMap(EmptyMap, FuelWallets)
    /\ router_address = "0xrouter"
    /\ usd_prices = EmptyMap
    /\ nonce_map = EmptyMap
    /\ poisoned = FALSE
    /\ engine = [pc |-> "recv", init |-> None, received |-> MaxCmds - 1,
                 rpc_checker |-> NoChecker]
    /\ monitor = [NewMonitor("0xtoken", "0xquote") EXCEPT
                     !.pc = "connect", !.kind = "V2",
                     !.wallets = TrackedOf(FuelWallets), !.attempt = 1]
    /\ sessions = <<>>
    /\ trades = <<>>
    /\ txCount = 0
    /\ epoch = 1
    /\ signedAt = EmptyMap
    /\ bcastLog = <<>>
    /\ nonceLog = <<>>
    /\ lastPoll = None
    /\ lastCmd = Some([kind |-> "Init", bad |-> FALSE])
    /\ TRACKED_WALLETS = TrackedOf(FuelWallets)
    /\ wrapped_native_address = "0xwnative"
    /\ fuel_threshold = bnb_to_wei(1)
    /\ \E c \in FuelConfigs :
          /\ RPC_POOL = <<RpcNode("rpc", 100, TRUE, c.fails)>>
          /\ fuel_enabled = c.enabled
          /\ fuel_amount = bnb_to_wei(c.amount)
          /\ fuel_quote_address = c.quote
    /\ auto_fuel_attempts \in FuelHistories
    /\ now = StartClock
    /\ fuelLog = <<>>
    /\ lockAt = NoPaths
    /\ PNL_STATE = EmptyMap
    /\ PNL_TASKS = EmptyMap
    /\ pnl_workers = <<>>

\* get_gas_price fails or answers 5 gwei
BlockGas == {None, Some(5)}

\* native balances: below the threshold, exactly the threshold
NativeBalances == {None, Some(bnb_to_wei(1) - 1), Some(bnb_to_wei(1))}

\* the quote token's balance and allowance: the call fails, short, enough
TokenAmounts == {None, Some(0), Some(bnb_to_wei(1))}

\* the steps of a session's blocks_task
BlocksStep(s) ==
    \/ \E o \in BlockOutcomes, g \in BlockGas : BlocksNext(s, o, g)
    \/ \E r \in NativeBalances : BlocksBalance(s, r)
    \/ FuelCount(s)
    \/ FuelStamp(s)
    \/ FuelCall(s)
    \/ \E ok \in BOOLEAN : FuelWithdrawBroadcast(s, ok)
    \/ \E r \in TokenAmounts : FuelBalanceOf(s, r)
    \/ \E r \in TokenAmounts : FuelAllowance(s, r)
    \/ \E ok \in BOOLEAN : FuelApproveBroadcast(s, ok)
    \/ \E ok \in BOOLEAN : FuelSwapBroadcast(s, ok)

NextFuel ==
    \/ MonitorConnect
    \/ Tick
    \/ \E s \in 1..Len(sessions) : BlocksStep(s)

SpecFuel == InitFuel /\ [][NextFuel]_vars


Live == 1..Len(sessions)
BlocksOf(s) == sessions[s].blocks

\* on this step the blocks_task of session s builds a fuel job
JobStarts(s) == BlocksOf(s).pc = "balance" /\ BlocksOf(s)'.pc = "count"

\* on this step the fuel job of session s returns
JobEnds(s) ==
    /\ BlocksOf(s).pc \in JobPcs \ {"count", "stamp"}
    /\ BlocksOf(s)'.pc \notin JobPcs \cup {"panicked"}

\* C11: a fuel job is started for a wallet only if, at the check, auto-fuel
\* is enabled, the balance just fetched is strictly below the threshold (a
\* balance equal to the threshold starts none), the fuel quote address is
\* not zero, the wallet's attempt count is below 5 and at least 60 000 ms
\* have passed since its last attempt.
C11_JobOnlyWhenDue ==
    [][\A s \in Live :
          JobStarts(s) =>
              LET w == Head(BlocksOf(s).todo)
                  balance == BlocksOf(s)'.balance
              IN /\ fuel_enabled
                 /\ balance < fuel_threshold
                 /\ balance # fuel_threshold
                 /\ fuel_quote_address # ZeroAddress
                 /\ Attempts(w)[1] < 5
                 /\ current_timestamp_ms - Attempts(w)[2] >= 60000]_vars

\* a job has been built in the block after the one in which the wallet's
\* balance was exactly the threshold and no attempt was made
C11_Witness ==
    /\ \E s \in Live : BlocksOf(s).pc = "count" /\ BlocksOf(s).seen = 2
    /\ fuelLog = <<>>
    /\ lockAt = NoPaths
    /\ PNL_STATE = EmptyMap
    /\ PNL_TASKS = EmptyMap
    /\ pnl_workers = <<>>
    /\ \E i \in 1..Len(calls) :
          /\ calls[i].ev.type = "BalanceUpdate"
          /\ calls[i].ev.wei = fuel_threshold

\* C12: two attempts of one wallet are at least 60 000 ms apart, whatever
\* the outcome of the earlier one.
C12_AttemptsSpaced ==
    \A i, j \in 1..Len(fuelLog) :
        i < j /\ fuelLog[i].wallet = fuelLog[j].wallet
            => fuelLog[j].at - fuelLog[i].at >= 60000

C16_FailureReported ==
    [][\A s \in Live :
          (JobEnds(s) /\ BlocksOf(s)'.last = "failed")
              => \E e \in EmittedNow :
                    e.type = "AutoFuelError" /\ e.wallet = BlocksOf(s).job.val.wallet]_vars


(***************************************************************************)
(* The supervisor over several sessions: reconnects after a stream ends,    *)
(* failed connection attempts, and the restart by SwitchToken.  Auto-fuel   *)
(* is switched off, so that a block only refreshes the balances.            *)
(***************************************************************************)
\* sessions the supervisors may start
MaxSupSessions == 2

\* blocks delivered to all sessions together
MaxSupBlocks == 2

RECURSIVE TotalSeen(_)
\* the blocks the sessions from s on have seen
TotalSeen(s) ==
    IF s > Len(sessions) THEN 0 ELSE sessions[s].blocks.seen + TotalSeen(s + 1)

SupSwitch == [GoodSwitch EXCEPT !.quote_address = "0xwnative"]

\* the engine initialised, the supervisor about to connect; fuel: auto-fuel
\* enabled, withdrawing the wrapped native token, for a wallet with four
\* failed attempts behind it
Initialised(fuel) ==
    /\ InitBridge
    /\ SHUTDOWN_FLAG = FALSE
    /\ RPC_POOL = <<RpcNode("rpc", 100, TRUE, 0)>>
    /\ pending_txs = {}
    /\ selected_pool_type = Some("V2")
    /\ selected_pool_address = Some(ThePool)
    /\ selected_pool_liquidity_usd = 4000
    /\ selected_pool_spot_price = 2
    /\ v2_reserves = MapPut(EmptyMap, ThePool, <<2000, 1000>>)
    /\ v3_states = EmptyMap
    /\ wallet_keys = WalletMap(EmptyMap, FuelWallets)
    /\ router_address = "0xrouter"
    /\ usd_prices = EmptyMap
    /\ nonce_map = EmptyMap
    /\ poisoned = FALSE
    /\ engine = [pc |-> "recv", init |-> None, received |-> MaxCmds - 1,
                 rpc_checker |-> NoChecker]
    /\ monitor = [NewMonitor("0xtoken", "0xwnative") EXCEPT
                     !.pc = "connect", !.kind = "V2",
                     !.wallets = TrackedOf(FuelWallets), !.attempt = 1]
    /\ sessions = <<>>
    /\ trades = <<>>
    /\ txCount = 0
    /\ epoch = 1
    /\ signedAt = EmptyMap
    /\ bcastLog = <<>>
    /\ nonceLog = <<>>
    /\ lastPoll = None
    /\ lastCmd = Some([kind |-> "Init", bad |-> FALSE])
    /\ TRACKED_WALLETS = TrackedOf(FuelWallets)
    /\ wrapped_native_address = "0xwnative"
    /\ fuel_threshold = bnb_to_wei(1)
    /\ fuel_enabled = fuel
    /\ fuel_amount = bnb_to_wei(1)
    /\ fuel_quote_address = "0xwnative"
    /\ auto_fuel_attempts = IF fuel THEN MapPut(EmptyMap, "0xwa", <<4, 0>>)
                            ELSE EmptyMap
    /\ now = StartClock
    /\ fuelLog = <<>>
    /\ lockAt = NoPaths
    /\ PNL_STATE = EmptyMap
    /\ PNL_TASKS = EmptyMap
    /\ pnl_workers = <<>>

InitSup == Initialised(FALSE)

\* a session ends while its other streams go on, or its blocks_task returns
SessionStep(s) ==
    \/ PoolStreamEnds(s)
    \/ \E reason \in SessionReasons(s) : MonitorSessionEnd(s, reason)
    \/ \E o \in BlockOutcomes : TotalSeen(1) < MaxSupBlocks /\ BlocksNext(s, o, None)

NextSup ==
    \/ CmdSwitchToken(SupSwitch)
    \/ MonitorDiscover("V2")
    \/ MonitorPrefetch(PrefetchNone)
    \/ MonitorConnectUpTo(MaxSupSessions)
    \/ MonitorConnectFail
    \/ \E s \in 1..Len(sessions) :
          \/ SessionStep(s)
          \/ \E r \in NativeBalances : BlocksBalance(s, r)
          \/ PollerTick(s)

SpecSup == InitSup /\ [][NextSup]_vars

(***************************************************************************)
(* Auto-fuel across a restart: the pool stream of a session ends or         *)
(* SwitchToken replaces the supervisor, the next session is opened, and     *)
(* both sessions receive blocks.                                            *)
(***************************************************************************)
InitJobs == Initialised(TRUE)

\* the steps of a session's blocks_task when the fuel job is a withdraw and
\* the wallet's balance is below the threshold
WithdrawStep(s) ==
    \/ BlocksBalance(s, Some(bnb_to_wei(1) - 1))
    \/ FuelCount(s)
    \/ FuelStamp(s)
    \/ FuelCall(s)
    \/ \E ok \in BOOLEAN : FuelWithdrawBroadcast(s, ok)

NextJobs ==
    \/ CmdSwitchToken(SupSwitch)
    \/ MonitorDiscover("V2")
    \/ MonitorPrefetch(PrefetchNone)
    \/ MonitorConnectUpTo(MaxSupSessions)
    \/ \E s \in 1..Len(sessions) : SessionStep(s) \/ WithdrawStep(s)

SpecJobs == InitJobs /\ [][NextJobs]_vars


\* run_auto_fuel is running for session s
InFlight(s) == BlocksOf(s).pc \in JobPcs \ {"count", "stamp"}

\* C13: at no time are two auto-fuel jobs for the same wallet in flight.
C13_OneJobPerWallet ==
    \A s, t \in Live :
        (s # t /\ InFlight(s) /\ InFlight(t))
            => BlocksOf(s).job.val.wallet # BlocksOf(t).job.val.wallet

\* C14: no wallet's attempt counter ever exceeds 5, and no job is started
\* for a wallet while its counter is 5.
C14_CounterCapped ==
    /\ [](\A w \in DOMAIN auto_fuel_attempts : auto_fuel_attempts[w][1] <= 5)
    /\ [][\A s \in Live :
             JobStarts(s) => Attempts(Head(BlocksOf(s).todo))[1] # 5]_vars

\* the ConnectionStatus events emit_event was called with, in order
ConnCalls ==
    LET cs == SelectSeq(calls, LAMBDA c : c.ev.type = "ConnectionStatus")
    IN [i \in 1..Len(cs) |-> cs[i].ev]

\* the ConnectionStatus events emitted on this step, in order
ConnNow ==
    LET cs == SelectSeq(SubSeq(calls', Len(calls) + 1, Len(calls')),
                        LAMBDA c : c.ev.type = "ConnectionStatus")
    IN [i \in 1..Len(cs) |-> cs[i].ev]

\* on this step run_subscriptions_and_wait returns to run_forever
SessionEnds == monitor.pc = "live" /\ monitor'.pc \in {"provider", "done"}

BlocksActive(s) == BlocksOf(s).pc \notin BlocksOver
PollerActive(s) == sessions[s].poller.pc \in {"tick", "check"}

\* C20: when a session is started every stream of the sessions before it
\* has stopped: never two block streams, never two pending-tx pollers.
C20_RestartedAsUnit ==
    \A s, t \in Live :
        s < t => /\ ~(BlocksActive(s) /\ BlocksActive(t))
                 /\ ~(PollerActive(s) /\ PollerActive(t))


\* the health checker is about to probe the node at its position
Probing == engine.rpc_checker.on /\ engine.rpc_checker.pos > 0
ProbedUrl == engine.rpc_checker.urls[engine.rpc_checker.pos]

\* on this step the health checker's probe of a node returns
Probes == Probing /\ engine'.rpc_checker.pos # engine.rpc_checker.pos

MaxRankNodes == 3

\* latencies on both sides of the private-node threshold, and never probed
RankLatencies == {100, priority_threshold + 99, priority_threshold + 100, U128_MAX}

RankUrls == <<"a", "b", "c", "d">>

\* the pools: node i has the i-th url, any latency, kind and eligibility
RankPools ==
    UNION {[1..n -> [latency : RankLatencies, is_private : BOOLEAN,
                     fails : {0, MaxNodeFails}]] : n \in 0..MaxRankNodes}

InitRank ==
    /\ InitBridge
    /\ SHUTDOWN_FLAG = FALSE
    /\ \E p \in RankPools :
          RPC_POOL = [i \in 1..Len(p) |->
                         RpcNode(RankUrls[i], p[i].latency, p[i].is_private, p[i].fails)]
    /\ pending_txs = {}
    /\ selected_pool_type = Some("V2")
    /\ selected_pool_address = Some(ThePool)
    /\ selected_pool_liquidity_usd = 4000
    /\ selected_pool_spot_price = 2
    /\ v2_reserves = MapPut(EmptyMap, ThePool, <<2000, 1000>>)
    /\ v3_states = EmptyMap
    /\ wallet_keys = WalletMap(EmptyMap, FuelWallets)
    /\ router_address = "0xrouter"
    /\ usd_prices = EmptyMap
    /\ nonce_map = EmptyMap
    /\ poisoned = FALSE
    /\ engine = [pc |-> "recv", init |-> None, received |-> MaxCmds,
                 rpc_checker |-> NoChecker]
    /\ monitor = NoMonitor
    /\ sessions = <<>>
    /\ \E c \in RpcTradeCommands :
          trades = <<NewTrade(KeysOf(wallet_keys, c.wallets), router_address, c)>>
    /\ txCount = 0
    /\ epoch = 1
    /\ signedAt = EmptyMap
    /\ bcastLog = <<>>
    /\ nonceLog = <<>>
    /\ lastPoll = None
    /\ lastCmd = Some([kind |-> "ExecuteTrade", bad |-> FALSE])
    /\ TRACKED_WALLETS = TrackedOf(FuelWallets)
    /\ wrapped_native_address = "0xwnative"
    /\ fuel_enabled = FALSE
    /\ fuel_threshold = 0
    /\ fuel_amount = 0
    /\ fuel_quote_address = "0xquote"
    /\ auto_fuel_attempts = EmptyMap
    /\ now = StartClock
    /\ fuelLog = <<>>
    /\ lockAt = NoPaths
    /\ PNL_STATE = EmptyMap
    /\ PNL_TASKS = EmptyMap
    /\ pnl_workers = <<>>

NextRank == \E t \in Trades : TradeStart(t)

SpecRank == InitRank /\ [][NextRank]_vars

\* the ranking rule: of two nodes of one kind the lower latency wins; a
\* private node wins over a public one unless its latency is at least the
\* public one's plus 50 000 (saturating), and then the public one wins
Beats(x, y) ==
    LET plus(l) == IF l + 50000 > U128_MAX THEN U128_MAX ELSE l + 50000 IN
    IF x.is_private = y.is_private THEN x.latency < y.latency
    ELSE IF x.is_private THEN ~(x.latency >= plus(y.latency))
    ELSE y.latency >= plus(x.latency)

\* C18: for every pool, in every order, the node get_fastest_node returns is
\* eligible and no eligible node beats it under the ranking rule; it
\* returns None exactly when no node is eligible.
C18_FastestNodeUnbeaten ==
    [][\A t \in Trades :
          (trades[t].pc = "start" /\ trades'[t].pc # "start") =>
              LET got == trades'[t].url
                  el == {n \in Range(RPC_POOL) : n.fails < 3}
              IN /\ ~got.some <=> el = {}
                 /\ got.some =>
                       \E n \in el : /\ n.url = got.val
                                     /\ \A m \in el : ~Beats(m, n)]_vars

\* the task got the private node although an eligible public node has the
\* lower latency and a third node, faster than both, is not eligible
C18_Witness ==
    /\ Len(RPC_POOL) = 3
    /\ trades[1].url.some
    /\ LET got == NodeOf(RPC_POOL, trades[1].url.val) IN
       /\ got.is_private
       /\ \E m \in Range(RPC_POOL) :
             ~m.is_private /\ m.fails < 3 /\ m.latency < got.latency
       /\ \E m \in Range(RPC_POOL) : m.fails >= 3 /\ m.latency < got.latency

(***************************************************************************)
(* The amount a sell trades for a wallet.                                   *)
(***************************************************************************)
\* the amount the batch's command resolves to for a wallet that sells: the
\* exact wei handed over for it, else the command's amount in token units
ResolvedSellAmount(tr, w) ==
    IF tr.amounts_wei.some /\ w \in DOMAIN tr.amounts_wei.val
    THEN tr.amounts_wei.val[w] ELSE parse_units(tr.amount)

\* the wallets a sell has skipped so far with "Zero balance to sell"
SkippedSellers(tr) ==
    {e.wallet : e \in {x \in Range(tr.events) :
                          x.status = "Error" /\ x.message = Text("Zero balance to sell")}}

\* C23: a sell takes the wallet's amount from amounts_wei[wallet] when the
\* override is present and otherwise parses the command's amount; a wallet
\* is skipped with a TradeStatus Error only when the amount resolved this
\* way is zero.
C23_SellAmountResolved ==
    \A t \in Trades :
        trades[t].action = "sell" =>
            \A w \in SkippedSellers(trades[t]) : ResolvedSellAmount(trades[t], w) = 0

(***************************************************************************)
(* calculate_expected_out_v2_pure over the states of the selected pool: a   *)
(* pool selected or not, with or without a reserve entry, reserves zero or  *)
(* not; a trade task is spawned with an amount and computes its quote.      *)
(* Reserves are stored from uint112 values and the amount is a U256, so     *)
(* the 512-bit product is below 2^398 and the quotient below the reserve:   *)
(* no intermediate wraps and the low 256 bits are the whole quotient.       *)
(***************************************************************************)
\* the reserves a pool may hold
QuoteReserves == {0, 500, 1000}

\* a buy of 0, 1 or 2 units for the first wallet; a sell of its exact balance
QuoteCommands ==
    {[TradeCommand("buy", None) EXCEPT !.amount = n, !.wallets = <<"0xwa">>] :
        n \in 0..2}
    \cup {[TradeCommand("sell", Some([w \in {"0xwa"} |-> n])) EXCEPT
              !.wallets = <<"0xwa">>] : n \in {100, 200}}

InitQuote ==
    /\ InitBridge
    /\ SHUTDOWN_FLAG = FALSE
    /\ RPC_POOL = <<RpcNode("rpc", 100, TRUE, 0)>>
    /\ pending_txs = {}
    /\ selected_pool_type = Some("V2")
    /\ selected_pool_address \in {None, Some(ThePool)}
    /\ selected_pool_liquidity_usd = IF selected_pool_address.some THEN 4000 ELSE 0
    /\ selected_pool_spot_price = IF selected_pool_address.some THEN 2 ELSE 0
    /\ \E r0 \in QuoteReserves, r1 \in QuoteReserves :
          v2_reserves \in {EmptyMap, MapPut(EmptyMap, ThePool, <<r0, r1>>)}
    /\ v3_states = EmptyMap
    /\ wallet_keys = WalletMap(EmptyMap, FuelWallets)
    /\ router_address = "0xrouter"
    /\ usd_prices = EmptyMap
    /\ nonce_map = EmptyMap
    /\ poisoned = FALSE
    /\ engine = [pc |-> "recv", init |-> None, received |-> MaxCmds,
                 rpc_checker |-> NoChecker]
    /\ monitor = NoMonitor
    /\ sessions = <<>>
    /\ \E c \in QuoteCommands :
          trades = <<NewTrade(KeysOf(wallet_keys, c.wallets), router_address, c)>>
    /\ txCount = 0
    /\ epoch = 1
    /\ signedAt = EmptyMap
    /\ bcastLog = <<>>
    /\ nonceLog = <<>>
    /\ lastPoll = None
    /\ lastCmd = Some([kind |-> "ExecuteTrade", bad |-> FALSE])
    /\ TRACKED_WALLETS = TrackedOf(FuelWallets)
    /\ wrapped_native_address = "0xwnative"
    /\ fuel_enabled = FALSE
    /\ fuel_threshold = 0
    /\ fuel_amount = 0
    /\ fuel_quote_address = "0xquote"
    /\ auto_fuel_attempts = EmptyMap
    /\ now = StartClock
    /\ fuelLog = <<>>
    /\ lockAt = NoPaths
    /\ PNL_STATE = EmptyMap
    /\ PNL_TASKS = EmptyMap
    /\ pnl_workers = <<>>

NextQuote ==
    \/ \E t \in Trades : TradeStart(t)
    \/ \E t \in Trades : TradeAllowance(t, 200)

SpecQuote == InitQuote /\ [][NextQuote]_vars

\* the amounts the quote is compared over, in wei
QuoteAmounts == {0, 1, 50, 100, 150, 200}

ExpectedOut(token_in, token_out, a) ==
    calculate_expected_out_v2_pure(token_in, token_out, a).out

\* the constant-product quote with the 0.30 % fee
ConstantProduct(a, reserve_in, reserve_out) ==
    (a * 9970 * reserve_out) \div (reserve_in * 10000 + a * 9970)

\* the selected pool's reserves, when it is selected and has an entry
SelectedReserves ==
    IF selected_pool_address.some /\ selected_pool_address.val \in DOMAIN v2_reserves
    THEN Some(v2_reserves[selected_pool_address.val]) ELSE None

\* the two directions of a trade over the pair: <<token_in, token_out>>
Directions == {<<"0xquote", "0xtoken">>, <<"0xtoken", "0xquote">>}

\* C29: for the reserves of the selected V2 pool the quote is monotonic in
\* the amount, is 0 for amount 0, is 0 when a reserve is zero or the pool
\* has no reserve entry (or none is selected), and otherwise is the
\* constant-product quote with reserve0 as reserve_in exactly when token_in
\* is the lower address; a task that has signed its swap holds that quote
\* for its amount.
C29_ExpectedOutV2 ==
    /\ \A d \in Directions :
          /\ \A a, b \in QuoteAmounts :
                a < b => ExpectedOut(d[1], d[2], a) <= ExpectedOut(d[1], d[2], b)
          /\ ExpectedOut(d[1], d[2], 0) = 0
          /\ \A a \in QuoteAmounts :
                IF ~SelectedReserves.some \/ 0 \in Range(SelectedReserves.val)
                THEN ExpectedOut(d[1], d[2], a) = 0
                ELSE LET r == SelectedReserves.val
                         lower == AddrLess(d[1], d[2])
                     IN ExpectedOut(d[1], d[2], a) =
                            ConstantProduct(a, IF lower THEN r[1] ELSE r[2],
                                               IF lower THEN r[2] ELSE r[1])
    /\ \A t \in Trades :
          trades[t].pc = "swap_bcast" =>
              trades[t].exp_out =
                  ExpectedOut(TokenIn(trades[t]), TokenOut(trades[t]),
                              trades[t].amount_wei)

\* a buy has signed its swap over a pool whose reserves differ: the quote
\* took reserve0 (the quote token's) as reserve_in
C29_Witness ==
    /\ SelectedReserves.some
    /\ SelectedReserves.val = <<500, 1000>>
    /\ trades[1].pc = "swap_bcast"
    /\ trades[1].action = "buy"
    /\ trades[1].amount_wei = 200
    /\ trades[1].exp_out = ConstantProduct(200, 500, 1000)
    /\ trades[1].exp_out # ConstantProduct(200, 1000, 500)
    /\ trades[1].exp_out > ExpectedOut("0xquote", "0xtoken", 100)

(***************************************************************************)
(* select_best_pool (monitor.rs).  Liquidity is in whole USD and a score is *)
(* compared exactly: the difference of two scores is brought over the       *)
(* common denominator max_liq * max_fee * (the impacts' denominators).      *)
(***************************************************************************)
PoolCandidate(address, pool_type, liquidity_usd, fee_bps) ==
    [address |-> address, pool_type |-> pool_type, liquidity_usd |-> liquidity_usd,
     fee_bps |-> fee_bps]

\* the trade size select_best_pool is called with
DEFAULT_TRADE_USD == 1000
\* candidates.retain(|p| p.liquidity_usd > 10.0)
MinLiquidityUsd == 10
\* the weights of the score, in tenths
WEIGHT_LIQUIDITY == 5
WEIGHT_FEE == 2
WEIGHT_PRICE_IMPACT == 3

RECURSIVE GCD(_, _)
GCD(a, b) == IF b = 0 THEN a ELSE GCD(b, a % b)

\* (trade_amount_usd / liquidity_usd).min(1.0) as a fraction in lowest terms
Impact(liquidity_usd, trade_amount_usd) ==
    IF liquidity_usd > trade_amount_usd
    THEN LET g == GCD(liquidity_usd, trade_amount_usd)
         IN [n |-> trade_amount_usd \div g, d |-> liquidity_usd \div g]
    ELSE [n |-> 1, d |-> 1]

\* the fold of f64::max over a field, from 0.0
MaxOf(vals) == IF vals = {} THEN 0 ELSE CHOOSE v \in vals : \A u \in vals : u <= v

\* score(a) - score(b), times 10 * max_liq * max_fee * the denominators of
\* the two impacts; norm_fee is 1.0 for every candidate when max_fee is 0
ScoreDiff(a, b, max_liq, max_fee, trade_amount_usd) ==
    LET ia == Impact(a.liquidity_usd, trade_amount_usd)
        ib == Impact(b.liquidity_usd, trade_amount_usd)
        F == IF max_fee > 0 THEN max_fee ELSE 1
        fees == IF max_fee > 0 THEN b.fee_bps - a.fee_bps ELSE 0
    IN WEIGHT_LIQUIDITY * (a.liquidity_usd - b.liquidity_usd) * F * ia.d * ib.d
       + WEIGHT_FEE * fees * max_liq * ia.d * ib.d
       + WEIGHT_PRICE_IMPACT * (ib.n * ia.d - ia.n * ib.d) * max_liq * F

RECURSIVE InsertByScore(_, _, _, _, _)
\* insert p behind every element whose score is not lower (stable)
InsertByScore(sorted, p, max_liq, max_fee, t) ==
    IF sorted = <<>> THEN <<p>>
    ELSE IF ScoreDiff(Head(sorted), p, max_liq, max_fee, t) >= 0
         THEN <<Head(sorted)>> \o InsertByScore(Tail(sorted), p, max_liq, max_fee, t)
         ELSE <<p>> \o sorted

RECURSIVE SortByScore(_, _, _, _)
\* candidates.sort_by(|a, b| b.score.partial_cmp(&a.score)...), a stable sort
SortByScore(cands, max_liq, max_fee, t) ==
    IF cands = <<>> THEN <<>>
    ELSE InsertByScore(SortByScore(SubSeq(cands, 1, Len(cands) - 1), max_liq, max_fee, t),
                       cands[Len(cands)], max_liq, max_fee, t)

\* the selection that takes the last of the sorted candidates
select_best_pool_Last(candidates, trade_amount_usd) ==
    LET kept == SelectSeq(candidates, LAMBDA p : p.liquidity_usd > MinLiquidityUsd)
        max_liq == MaxOf({kept[i].liquidity_usd : i \in 1..Len(kept)})
        max_fee == MaxOf({kept[i].fee_bps : i \in 1..Len(kept)})
        sorted == SortByScore(kept, max_liq, max_fee, trade_amount_usd)
    IN IF kept = <<>> THEN None ELSE Some(sorted[Len(sorted)])

\* select_best_pool: drop the candidates at or below 10 USD, score the rest,
\* sort by descending score, take the first
select_best_pool(candidates, trade_amount_usd) ==
    LET kept == SelectSeq(candidates, LAMBDA p : p.liquidity_usd > MinLiquidityUsd)
        max_liq == MaxOf({kept[i].liquidity_usd : i \in 1..Len(kept)})
        max_fee == MaxOf({kept[i].fee_bps : i \in 1..Len(kept)})
    IN IF kept = <<>> THEN None
       ELSE Some(Head(SortByScore(kept, max_liq, max_fee, trade_amount_usd)))

\* what a pool answers the prefetch: reserves (a V2 pair), or slot0 and the
\* liquidity (a V3 pool)
V2Read(r0, r1) == [kind |-> "V2", r0 |-> r0, r1 |-> r1]
V3Read(sqrtp, liquidity) == [kind |-> "V3", sqrtp |-> sqrtp, liquidity |-> liquidity]

\* the candidate prefetch_all_data builds for a pool from its answer: a V2
\* pair at 30 bps, a V3 pool at the fee discover_pools stored for it
CandidateOf(addr, r) ==
    IF r.kind = "V2"
    THEN PoolCandidate(addr, "V2", V2LiquidityUsd(r.r0, r.r1), 30)
    ELSE PoolCandidate(addr, "V3", V3LiquidityUsd(r.sqrtp, r.liquidity),
                       IF addr \in DOMAIN v3_states THEN v3_states[addr].pool_fee
                       ELSE 2500)

RECURSIVE StoreReads(_, _, _)
\* the map after the inserts for the pools that answered as kind
StoreReads(m, targets, reads) ==
    IF targets = <<>> THEN m
    ELSE LET a == Head(targets)
             r == Head(reads)
             fee == IF a \in DOMAIN m THEN m[a].pool_fee ELSE 2500
             m1 == IF r.kind = "V2" THEN m
                   ELSE MapPut(m, a, V3PoolState(r.sqrtp, r.liquidity, fee))
         IN StoreReads(m1, Tail(targets), Tail(reads))

RECURSIVE StoreReserves(_, _, _)
StoreReserves(m, targets, reads) ==
    IF targets = <<>> THEN m
    ELSE LET r == Head(reads)
             m1 == IF r.kind = "V2" THEN MapPut(m, Head(targets), <<r.r0, r.r1>>)
                   ELSE m
         IN StoreReserves(m1, Tail(targets), Tail(reads))

\* prefetch_all_data over the pools discover_pools found (monitor.targets),
\* every pool answering: store the answers, build the candidates in the
\* targets' order, select the best one and announce it
MonitorPrefetchAmong(reads) ==
    LET targets == monitor.targets
        cands == [i \in 1..Len(targets) |-> CandidateOf(targets[i], reads[i])]
        best == select_best_pool(cands, DEFAULT_TRADE_USD)
    IN /\ monitor.pc = "provider"
       /\ "targets" \in DOMAIN monitor
       /\ Len(reads) = Len(targets)
       /\ get_fastest_pool(RPC_POOL, 3) # <<>>
       /\ IF poisoned
          THEN /\ MonitorPanic
               /\ UNCHANGED <<bridgeVars, v2_reserves, v3_states, selected_pool_type,
                              selected_pool_address,
                              selected_pool_liquidity_usd, selected_pool_spot_price>>
          ELSE /\ v2_reserves' = StoreReserves(v2_reserves, targets, reads)
               /\ v3_states' = StoreReads(v3_states, targets, reads)
               /\ selected_pool_type' = IF best.some THEN Some(best.val.pool_type)
                                        ELSE selected_pool_type
               /\ selected_pool_address' = IF best.some THEN Some(best.val.address)
                                           ELSE selected_pool_address
               /\ selected_pool_liquidity_usd' =
                      IF best.some THEN best.val.liquidity_usd
                      ELSE selected_pool_liquidity_usd
               /\ selected_pool_spot_price' =
                      IF ~best.some THEN selected_pool_spot_price
                      ELSE LET r == reads[CHOOSE i \in 1..Len(targets) :
                                              targets[i] = best.val.address]
                           IN IF r.kind = "V2" THEN V2Price(r.r0, r.r1)
                              ELSE V3Price(r.sqrtp, r.liquidity)
               /\ monitor' = [pc |-> "connect", token |-> monitor.token,
                              quote |-> monitor.quote, kind |-> monitor.kind,
                              wallets |-> monitor.wallets, attempt |-> monitor.attempt,
                              targets |-> targets, candidates |-> cands]
               /\ TaskEmits(IF best.some
                            THEN <<EvPoolDetected(best.val.pool_type, best.val.address)>>
                            ELSE <<>>)
       /\ UNCHANGED <<SHUTDOWN_FLAG, RPC_POOL, pending_txs, wallet_keys, router_address,
                      usd_prices, nonce_map, poisoned, engine, sessions, trades, histVars>>
       /\ UNCHANGED fuelVars

(***************************************************************************)
(* The prefetch of a supervisor that has discovered up to four pools: a V2  *)
(* pair or none, and V3 pools of up to three fee tiers.                     *)
(***************************************************************************)
\* the V3 pools: address and fee tier, in discover_pools' order
V3Tiers == <<[address |-> "0xpool100", fee |-> 100],
             [address |-> "0xpool500", fee |-> 500],
             [address |-> "0xpool2500", fee |-> 2500]>>

\* the answers of a V2 pair (liquidity 10, 72 and 2000 USD) and of a V3 pool
\* (liquidity 10, 11, 100, 2000 and 4000 USD)
V2Reads == {V2Read(r0, 1000) : r0 \in {5, 36, 1000}}
V3Reads == {V3Read(U256(0, 1), l) : l \in {10, 11, 100, 2000, 4000}}

\* the answers that fit the targets
ReadsFor(targets) ==
    {q \in [1..Len(targets) -> V2Reads \cup V3Reads] :
        \A i \in 1..Len(targets) : (q[i].kind = "V2") <=> (targets[i] = ThePool)}

InitPools ==
    /\ InitBridge
    /\ SHUTDOWN_FLAG = FALSE
    /\ RPC_POOL = <<RpcNode("rpc", 100, TRUE, 0)>>
    /\ pending_txs = {}
    /\ selected_pool_type = None
    /\ selected_pool_address = None
    /\ selected_pool_liquidity_usd = 0
    /\ selected_pool_spot_price = 0
    /\ v2_reserves = EmptyMap
    /\ \E v2 \in BOOLEAN, tiers \in SUBSET (1..Len(V3Tiers)) :
          LET v3 == SelectSeq(V3Tiers, LAMBDA x : \E i \in tiers : V3Tiers[i] = x) IN
          /\ v3_states = [a \in {v3[i].address : i \in 1..Len(v3)} |->
                             V3PoolState(U256(0, 0), 0,
                                 (CHOOSE x \in Range(v3) : x.address = a).fee)]
          /\ monitor = [pc |-> "provider", token |-> "0xtoken", quote |-> "0xquote",
                        kind |-> "V3", wallets |-> TrackedOf(FuelWallets),
                        attempt |-> 1,
                        targets |-> (IF v2 THEN <<ThePool>> ELSE <<>>)
                                    \o [i \in 1..Len(v3) |-> v3[i].address]]
    /\ wallet_keys = WalletMap(EmptyMap, FuelWallets)
    /\ router_address = "0xrouter"
    /\ usd_prices = EmptyMap
    /\ nonce_map = EmptyMap
    /\ poisoned = FALSE
    /\ engine = [pc |-> "recv", init |-> None, received |-> MaxCmds,
                 rpc_checker |-> NoChecker]
    /\ sessions = <<>>
    /\ trades = <<>>
    /\ txCount = 0
    /\ epoch = 1
    /\ signedAt = EmptyMap
    /\ bcastLog = <<>>
    /\ nonceLog = <<>>
    /\ lastPoll = None
    /\ lastCmd = Some([kind |-> "SwitchToken", bad |-> FALSE])
    /\ TRACKED_WALLETS = TrackedOf(FuelWallets)
    /\ wrapped_native_address = "0xwnative"
    /\ fuel_enabled = FALSE
    /\ fuel_threshold = 0
    /\ fuel_amount = 0
    /\ fuel_quote_address = "0xquote"
    /\ auto_fuel_attempts = EmptyMap
    /\ now = StartClock
    /\ fuelLog = <<>>
    /\ lockAt = NoPaths
    /\ PNL_STATE = EmptyMap
    /\ PNL_TASKS = EmptyMap
    /\ pnl_workers = <<>>

NextPools == \E reads \in ReadsFor(monitor.targets) : MonitorPrefetchAmong(reads)

SpecPools == InitPools /\ [][NextPools]_vars

\* the candidates the prefetch kept, by position, once it has selected
Kept ==
    {i \in 1..Len(monitor.candidates) :
        monitor.candidates[i].liquidity_usd > MinLiquidityUsd}

\* score(candidates[i]) - score(candidates[j]), over the kept candidates
KeptScoreDiff(i, j) ==
    LET c == monitor.candidates IN
    ScoreDiff(c[i], c[j], MaxOf({c[k].liquidity_usd : k \in Kept}),
              MaxOf({c[k].fee_bps : k \in Kept}), DEFAULT_TRADE_USD)

\* C30: select_best_pool never returns a candidate with tvl_usd of 10 or
\* less, returns none exactly when every candidate is at or below 10, and
\* otherwise returns a candidate of maximum score, the first inserted among
\* those of equal maximum score.
C30_BestPool ==
    "candidates" \in DOMAIN monitor =>
        IF Kept = {} THEN ~selected_pool_address.some
        ELSE /\ selected_pool_address.some
             /\ \E i \in Kept :
                   /\ monitor.candidates[i].address = selected_pool_address.val
                   /\ monitor.candidates[i].pool_type = selected_pool_type.val
                   /\ \A j \in Kept :
                         /\ KeptScoreDiff(i, j) >= 0
                         /\ KeptScoreDiff(i, j) = 0 => i <= j

\* four candidates, one at 10 USD dropped; the V2 pair (72 USD at 30 bps)
\* and the first V3 pool (100 USD at 100 bps) score the same and the pair,
\* inserted first, is selected
C30_Witness ==
    /\ "candidates" \in DOMAIN monitor
    /\ Len(monitor.candidates) = 3
    /\ Cardinality(Kept) = 2
    /\ \E i, j \in Kept : i < j /\ KeptScoreDiff(i, j) = 0
    /\ selected_pool_address = Some(ThePool)

(***************************************************************************)
(* UnsubscribeToken and AddWallet.                                          *)
(***************************************************************************)
\* UnsubscribeToken: clear the selection fields under the write lock; the
\* supervisor and its sessions are left as they are
CmdUnsubscribeToken(c) ==
    /\ Receiving
    /\ lastCmd' = Some([kind |-> "UnsubscribeToken", bad |-> FALSE])
    /\ IF poisoned
       THEN /\ engine' = Received("panicked")
            /\ TaskEmits(<<EvLog("INFO", "unsubscribing")>>)
            /\ UNCHANGED <<selected_pool_type, selected_pool_address,
                           selected_pool_liquidity_usd, selected_pool_spot_price>>
       ELSE /\ selected_pool_type' = None
            /\ selected_pool_address' = None
            /\ selected_pool_liquidity_usd' = 0
            /\ selected_pool_spot_price' = 0
            /\ engine' = Received("recv")
            /\ TaskEmits(<<EvLog("INFO", "unsubscribing"),
                           EvLog("SUCCESS", "token state cleared")>>)
    /\ UNCHANGED <<SHUTDOWN_FLAG, RPC_POOL, pending_txs, v2_reserves, v3_states,
                   wallet_keys, router_address, usd_prices, nonce_map, poisoned, monitor,
                   sessions,
                   trades, txCount, epoch, signedAt, bcastLog, nonceLog, lastPoll>>
    /\ UNCHANGED fuelVars

\* AddWallet: when the address parses, insert the key into wallet_keys
CmdAddWallet(c) ==
    LET a == from_str(c.address) IN
    /\ Receiving
    /\ lastCmd' = Some([kind |-> "AddWallet", bad |-> FALSE, address |-> a])
    /\ IF ~a.some
       THEN /\ engine' = Received("recv")
            /\ UNCHANGED <<bridgeVars, wallet_keys>>
       ELSE IF poisoned
       THEN /\ engine' = Received("panicked")
            /\ UNCHANGED <<bridgeVars, wallet_keys>>
       ELSE /\ wallet_keys' = MapPut(wallet_keys, a.val, c.private_key)
            /\ engine' = Received("recv")
            /\ TaskEmits(<<EvLog("INFO", "wallet added")>>)
    /\ UNCHANGED <<SHUTDOWN_FLAG, RPC_POOL, pending_txs, selected_pool_type,
                   selected_pool_address,
                   selected_pool_liquidity_usd, selected_pool_spot_price,
                   v2_reserves, v3_states, router_address,
                   usd_prices, nonce_map, poisoned, monitor, sessions, trades, txCount, epoch,
                   signedAt, bcastLog, nonceLog, lastPoll>>
    /\ UNCHANGED fuelVars

(***************************************************************************)
(* The engine initialised with one wallet, then commands in any order:      *)
(* SwitchToken to either of two tokens, UnsubscribeToken, AddWallet of a    *)
(* second wallet, ExecuteTrade and Init, while the supervisor discovers,    *)
(* prefetches and connects and the pool streams deliver Sync logs.          *)
(***************************************************************************)
OneWalletInit == [GoodInit EXCEPT !.wallets = <<<<"0xwa", "kA">>>>]
OtherSwitch == [GoodSwitch EXCEPT !.token_address = "0xtoken2"]
PairSwitches == {GoodSwitch, OtherSwitch}
Unsubscribe == [token_address |-> "0xtoken"]
NewWallet == [address |-> "0xwb", private_key |-> "kB"]

InitSwitch ==
    /\ InitBridge
    /\ SHUTDOWN_FLAG = FALSE
    /\ RPC_POOL = <<RpcNode("rpc", 100, TRUE, 0)>>
    /\ pending_txs = {}
    /\ selected_pool_type = None
    /\ selected_pool_address = None
    /\ selected_pool_liquidity_usd = 0
    /\ selected_pool_spot_price = 0
    /\ v2_reserves = EmptyMap
    /\ v3_states = EmptyMap
    /\ wallet_keys = WalletMap(EmptyMap, OneWalletInit.wallets)
    /\ router_address = "0xrouter"
    /\ usd_prices = EmptyMap
    /\ nonce_map = EmptyMap
    /\ poisoned = FALSE
    /\ engine = [pc |-> "recv", init |-> None, received |-> 0,
                 rpc_checker |-> NewChecker(<<"rpc">>)]
    /\ monitor = NoMonitor
    /\ sessions = <<>>
    /\ trades = <<>>
    /\ txCount = 0
    /\ epoch = 1
    /\ signedAt = EmptyMap
    /\ bcastLog = <<>>
    /\ nonceLog = <<>>
    /\ lastPoll = None
    /\ lastCmd = Some([kind |-> "Init", bad |-> FALSE])
    /\ TRACKED_WALLETS = TrackedOf(OneWalletInit.wallets)
    /\ wrapped_native_address = "0xwnative"
    /\ fuel_enabled = FALSE
    /\ fuel_threshold = 0
    /\ fuel_amount = 0
    /\ fuel_quote_address = ZeroAddress
    /\ auto_fuel_attempts = EmptyMap
    /\ now = StartClock
    /\ fuelLog = <<>>
    /\ lockAt = NoPaths
    /\ PNL_STATE = EmptyMap
    /\ PNL_TASKS = EmptyMap
    /\ pnl_workers = <<>>

NextSwitch ==
    \/ \E c \in PairSwitches : CmdSwitchToken(c)
    \/ CmdUnsubscribeToken(Unsubscribe)
    \/ CmdAddWallet(NewWallet)
    \/ CmdExecuteTrade(BuyCommand)
    \/ CmdInitBegin(OneWalletInit)
    \/ CmdInitFinish
    \/ MonitorDiscover("V2")
    \/ MonitorPrefetch(PrefetchV2(2000, 1000, TRUE))
    \/ MonitorConnectUpTo(MaxSupSessions)
    \/ \E s \in Sessions : PoolLog(s, SyncLog(5000, 1000))
    \/ \E t \in Trades : TradeStart(t)

SpecSwitch == InitSwitch /\ [][NextSwitch]_vars

\* C21: once SwitchToken has been processed the selection and the pool maps
\* hold nothing written for the pair selected before: the selected address
\* and every key of v2_reserves and v3_states is the pool of the token the
\* current supervisor was started for.
C21_OnePairSelected ==
    "token" \in DOMAIN monitor =>
        LET pool == PoolOf(monitor.token) IN
        /\ selected_pool_address \in {None, Some(pool)}
        /\ DOMAIN v2_reserves \subseteq {pool}
        /\ DOMAIN v3_states \subseteq {pool}

\* C22: while UnsubscribeToken is the latest command processed, the
\* selection fields are empty.
C22_EmptyAfterUnsubscribe ==
    (lastCmd.some /\ lastCmd.val.kind = "UnsubscribeToken" /\ engine.pc = "recv")
        => selected_pool_type = None /\ selected_pool_address = None

\* C24: once AddWallet has been processed for an address that parses, the
\* address is among the tracked wallets.
C24_AddedWalletTracked ==
    (lastCmd.some /\ lastCmd.val.kind = "AddWallet" /\ engine.pc = "recv"
        /\ lastCmd.val.address.some)
        => lastCmd.val.address.val \in Range(TRACKED_WALLETS)

\* C26: once an Init has been processed, a step of a stream of a session
\* opened before that Init changes nothing in CORE_STATE and emits nothing.
C26_OldTasksSilent ==
    [][\A s \in Sessions :
          (engine.pc = "recv" /\ sessions[s].opened < epoch
              /\ Len(sessions') = Len(sessions) /\ sessions'[s] # sessions[s])
              => (CoreSnapshot' = CoreSnapshot /\ calls' = calls)]_vars

(***************************************************************************)
(* Discovery when the selected quote has no pool                            *)
(* (start_unified_websocket_monitor with several quote tokens configured).  *)
(***************************************************************************)
EvPoolNotFoundFor(token, available_quotes) ==
    [type |-> "PoolNotFound", token |-> token, available_quotes |-> available_quotes]

\* CORE_STATE.quote_tokens as SwitchToken hands it over: (symbol, address)
QuoteTokens == {<<"Q", "0xquote">>, <<"W", "0xwnative">>, <<"U", "0xusd">>}

\* how one discover_pools call ends: no node answers get_block_number, the
\* factory calls fail, the factories answer the zero address, or they answer
\* a V2 pair or a V3 pool
FactoryAnswers == {"unreachable", "error", "none", "V2", "V3"}

\* the pool the factories hold for the token against a quote
PairPool(token, quote) ==
    CASE quote = "0xwnative" -> "0xpoolw"
      [] quote = "0xusd" -> "0xpoolu"
      [] OTHER -> PoolOf(token)

\* discover_pools' result: the token, then the pools the factories named
discover_pools(token, quote, answer) ==
    IF answer \in {"V2", "V3"} THEN <<token, PairPool(token, quote)>> ELSE <<token>>

RECURSIVE FoundQuotes(_, _, _, _)
\* found_quotes: the other quotes, in all_quotes' order, that have pools
FoundQuotes(all_quotes, token, quote, answers) ==
    IF all_quotes = <<>> THEN <<>>
    ELSE LET p == Head(all_quotes)
             rest == FoundQuotes(Tail(all_quotes), token, quote, answers)
         IN IF p[2] # quote /\ Len(discover_pools(token, p[2], answers[p[2]])) > 1
            THEN <<p>> \o rest ELSE rest

\* start_unified_websocket_monitor when discover_pools finds no pool for the
\* selected quote: try every other quote, emit PoolNotFound, return.  The
\* task keeps what its discover_pools calls met (answers) and the order in
\* which the quote map was iterated.
MonitorDiscoverQuotes(answers, all_quotes) ==
    LET token == monitor.token
        quote == monitor.quote
        found_quotes == FoundQuotes(all_quotes, token, quote, answers)
        v3_found == {p \in Range(found_quotes) : answers[p[2]] = "V3"}
    IN /\ monitor.pc = "discover"
       /\ Len(discover_pools(token, quote, answers[quote])) <= 1
       /\ (\E q \in DOMAIN answers : answers[q] # "unreachable")
              => get_fastest_pool(RPC_POOL, 5) # <<>>
       /\ IF poisoned
          THEN /\ MonitorPanic
               /\ TaskEmits(<<EvLog("INFO", "searching pools")>>)
               /\ UNCHANGED v3_states
          ELSE /\ v3_states' =
                      [a \in DOMAIN v3_states \cup {PairPool(token, p[2]) : p \in v3_found}
                          |-> IF a \in {PairPool(token, p[2]) : p \in v3_found}
                              THEN V3PoolState(U256(0, 0), 0, 2500)
                              ELSE v3_states[a]]
               /\ monitor' = [pc |-> "done", token |-> token, quote |-> quote,
                              answers |-> answers]
               /\ TaskEmits(<<EvLog("INFO", "searching pools"),
                              EvLog("WARNING", "no pools for the selected quote")>>
                            \o (IF found_quotes = <<>>
                                THEN <<EvLog("ERROR", "no pools for any quote")>>
                                ELSE <<EvLog("WARNING", "pools found for other quotes")>>)
                            \o <<EvPoolNotFoundFor(token, found_quotes)>>)
       /\ UNCHANGED <<SHUTDOWN_FLAG, RPC_POOL, pending_txs, selected_pool_type,
                      selected_pool_address,
                      selected_pool_liquidity_usd, selected_pool_spot_price,
                      v2_reserves, wallet_keys, router_address,
                      usd_prices, nonce_map, poisoned, engine, sessions, trades, histVars>>
       /\ UNCHANGED fuelVars

\* the supervisor just spawned for one of two tokens against 0xquote; the
\* RPC pool holds one node or none
InitDiscover ==
    /\ InitBridge
    /\ SHUTDOWN_FLAG = FALSE
    /\ RPC_POOL \in {<<>>, <<RpcNode("rpc", 100, TRUE, 0)>>}
    /\ pending_txs = {}
    /\ selected_pool_type = None
    /\ selected_pool_address = None
    /\ selected_pool_liquidity_usd = 0
    /\ selected_pool_spot_price = 0
    /\ v2_reserves = EmptyMap
    /\ v3_states = EmptyMap
    /\ wallet_keys = WalletMap(EmptyMap, FuelWallets)
    /\ router_address = "0xrouter"
    /\ usd_prices = EmptyMap
    /\ nonce_map = EmptyMap
    /\ poisoned = FALSE
    /\ engine = [pc |-> "recv", init |-> None, received |-> MaxCmds,
                 rpc_checker |-> NoChecker]
    /\ \E t \in {"0xtoken", "0xtoken2"} : monitor = NewMonitor(t, "0xquote")
    /\ sessions = <<>>
    /\ trades = <<>>
    /\ txCount = 0
    /\ epoch = 1
    /\ signedAt = EmptyMap
    /\ bcastLog = <<>>
    /\ nonceLog = <<>>
    /\ lastPoll = None
    /\ lastCmd = Some([kind |-> "SwitchToken", bad |-> FALSE])
    /\ TRACKED_WALLETS = TrackedOf(FuelWallets)
    /\ wrapped_native_address = "0xwnative"
    /\ fuel_enabled = FALSE
    /\ fuel_threshold = 0
    /\ fuel_amount = 0
    /\ fuel_quote_address = "0xquote"
    /\ auto_fuel_attempts = EmptyMap
    /\ now = StartClock
    /\ fuelLog = <<>>
    /\ lockAt = NoPaths
    /\ PNL_STATE = EmptyMap
    /\ PNL_TASKS = EmptyMap
    /\ pnl_workers = <<>>

NextDiscover ==
    \/ \E answers \in [{p[2] : p \in QuoteTokens} -> FactoryAnswers],
          all_quotes \in Orders(QuoteTokens) :
              MonitorDiscoverQuotes(answers, all_quotes)
    \/ \E f \in {"V2", "V3"} : MonitorDiscover(f)
    \/ MonitorPrefetch(PrefetchV2(2000, 1000, TRUE))
    \/ MonitorConnect

SpecDiscover == InitDiscover /\ [][NextDiscover]_vars

\* the PoolNotFound events emitted so far, by position in the call history
NotFoundCalls == {i \in 1..Len(calls) : calls[i].ev.type = "PoolNotFound"}

\* C27: when discovery ends without a pool for the selected quote exactly
\* one PoolNotFound is emitted, its available_quotes are exactly the other
\* configured quotes for which discovery found a pool, no WebSocket session
\* is started, and the factories had been queried for the selected quote
\* and had answered that there is no pool.
C27_PoolNotFound ==
    "answers" \in DOMAIN monitor =>
        /\ Cardinality(NotFoundCalls) = 1
        /\ \A i \in NotFoundCalls :
              /\ calls[i].sent
              /\ Range(calls[i].ev.available_quotes) =
                     {p \in QuoteTokens :
                         p[2] # monitor.quote /\ monitor.answers[p[2]] \in {"V2", "V3"}}
        /\ sessions = <<>>
        /\ monitor.answers[monitor.quote] = "none"

\* the same without the last conjunct: what holds of the event itself
C27_AvailableQuotes ==
    "answers" \in DOMAIN monitor =>
        /\ Cardinality(NotFoundCalls) = 1
        /\ \A i \in NotFoundCalls :
              Range(calls[i].ev.available_quotes) =
                  {p \in QuoteTokens :
                      p[2] # monitor.quote /\ monitor.answers[p[2]] \in {"V2", "V3"}}
        /\ sessions = <<>>

(***************************************************************************)
(* Shutdown: raise the flag, abort the four registered handles, leave the   *)
(* command loop.  The streams of the sessions are not registered anywhere.  *)
(***************************************************************************)
CmdShutdown ==
    /\ Receiving
    /\ SHUTDOWN_FLAG' = TRUE
    /\ monitor' = NoMonitor
    /\ engine' = [Received("stopped") EXCEPT !.rpc_checker = NoChecker]
    /\ lastCmd' = Some([kind |-> "Shutdown", bad |-> FALSE])
    /\ UNCHANGED <<bridgeVars, RPC_POOL, coreVars, sessions, trades, txCount, epoch,
                   signedAt, bcastLog, nonceLog, lastPoll>>
    /\ UNCHANGED fuelVars

NextStop ==
    \/ CmdSwitchToken(GoodSwitch)
    \/ CmdShutdown
    \/ MonitorDiscover("V2")
    \/ MonitorPrefetch(PrefetchV2(2000, 1000, TRUE))
    \/ MonitorConnect
    \/ \E s \in Sessions : PoolLog(s, SyncLog(5000, 1000))
    \/ \E s \in Sessions : PollerTick(s)
    \/ \E s \in Sessions, o \in BlockOutcomes : BlocksNext(s, o, None)
    \/ \E s \in Sessions, r \in NativeBalances : BlocksBalance(s, r)

\* the tasks are scheduled: a poller's tick comes, a block stream's wait
\* ends (with a block, the end of the stream or the idle timeout) and its
\* balance request returns.  When a log arrives on a pool subscription is
\* up to the chain: no fairness.
FairStop ==
    /\ WF_vars(\E s \in Sessions : PollerTick(s))
    /\ WF_vars(\E s \in Sessions, o \in BlockOutcomes : BlocksNext(s, o, None))
    /\ WF_vars(\E s \in Sessions, r \in NativeBalances : BlocksBalance(s, r))

SpecStop == InitSwitch /\ [][NextStop]_vars /\ FairStop

\* C25: once Shutdown has been processed every stream of every session
\* eventually terminates: the pending-tx poller and, while its subscription
\* can still deliver, the pool-log stream.
C25_TasksTerminate ==
    (engine.pc = "stopped")
        ~> (\A s \in Sessions :
               /\ sessions[s].poller.pc \notin {"tick", "check"}
               /\ sessions[s].logs < MaxLogs => sessions[s].pools # "live")

\* what does hold after Shutdown: the supervisor and the prober are gone
\* and the loop takes no further command
C25_LoopStopped ==
    [][engine.pc = "stopped" =>
          /\ engine' = engine
          /\ monitor' = NoMonitor
          /\ lastCmd' = lastCmd]_vars

(***************************************************************************)
(* Lock acquisition.  Each task runs code paths from one suspension to the  *)
(* next; a path is the sequence of its lock operations and awaits, in       *)
(* source order.  A guard bound by `let` is held to the end of its block, a *)
(* temporary guard to the end of its statement.                             *)
(***************************************************************************)
Acq(mode, lock) == [op |-> mode, lock |-> lock]
Rel(lock) == [op |-> "unlock", lock |-> lock]
Await == [op |-> "await", lock |-> ""]
\* a guard held over body
Guarded(mode, lock, body) == <<Acq(mode, lock)>> \o body \o <<Rel(lock)>>
\* a temporary guard
Temp(mode, lock) == <<Acq(mode, lock), Rel(lock)>>

\* emit_log: a Log passes no dedup cache; send_to_python locks SIGNAL_TX
EmitLogOps == Temp("lock", "SIGNAL_TX")
\* emit_event of a deduplicated variant: its cache's guard is dropped before
\* send_to_python runs
EmitOps(cache) == Temp("write", cache) \o EmitLogOps

\* Init: abort the handles, sleep, install the RPC pool, refill CORE_STATE
\* (clearing and pushing TRACKED_WALLETS inside the guard), spawn, announce
InitPath ==
    Temp("lock", "MONITOR_HANDLE") \o Temp("lock", "INTERNAL_HANDLE")
    \o Temp("lock", "PNL_HANDLE") \o Temp("lock", "RPC_CHECKER_HANDLE")
    \o <<Await>>
    \o Temp("write", "RPC_POOL")
    \o Guarded("write", "CORE_STATE",
               Temp("write", "TRACKED_WALLETS") \o Temp("write", "TRACKED_WALLETS"))
    \o EmitLogOps
    \o Temp("lock", "RPC_CHECKER_HANDLE") \o Temp("lock", "INTERNAL_HANDLE")
    \o Temp("lock", "PNL_HANDLE")
    \o EmitLogOps \o EmitOps("LAST_CONN")

\* SwitchToken: read the quotes, clear under the write guard (logging
\* inside it), replace the monitor handle
SwitchTokenPath ==
    Temp("read", "CORE_STATE")
    \o Guarded("write", "CORE_STATE", EmitLogOps)
    \o Temp("lock", "MONITOR_HANDLE")
    \o Temp("read", "CORE_STATE")
    \o Temp("lock", "MONITOR_HANDLE")

\* UnsubscribeToken: the write guard lives to the end of the arm
UnsubscribeTokenPath ==
    EmitLogOps \o Guarded("write", "CORE_STATE", EmitLogOps)

\* UpdateSettings: the CORE_STATE write guard lives to the end of the arm,
\* over the logs, the RPC_POOL write and the INTERNAL_HANDLE locks
UpdateSettingsPath ==
    Guarded("write", "CORE_STATE",
            EmitLogOps \o Temp("write", "RPC_POOL")
            \o Temp("lock", "INTERNAL_HANDLE") \o Temp("lock", "INTERNAL_HANDLE"))

\* pools_task on a Sync log
PoolsSyncPath ==
    Temp("read", "CORE_STATE") \o Temp("write", "CORE_STATE")
    \o Temp("write", "CORE_STATE") \o EmitOps("LAST_POOL")

\* pools_task on a Swap log: the write guard is held over emit_event
PoolsSwapPath ==
    Temp("read", "CORE_STATE")
    \o Guarded("write", "CORE_STATE", EmitOps("LAST_POOL"))

\* rpc_health_checker holding RPC_POOL while it reads CORE_STATE
RpcCheckerPath_Nested ==
    <<Await>> \o Guarded("write", "RPC_POOL", Temp("read", "CORE_STATE"))

\* rpc_health_checker: one probe, then update_latency or mark_fail
RpcCheckerPath == <<Await>> \o Temp("write", "RPC_POOL")

\* start_background_worker: one round for one wallet, up to its nonce write
WorkerPath ==
    Temp("read", "TRACKED_WALLETS") \o Temp("read", "RPC_POOL")
    \o Temp("read", "CORE_STATE") \o <<Await>> \o Temp("write", "CORE_STATE")

\* run_batch_trade up to its V2 quote: calculate_expected_out_v2_pure holds
\* the read guard over its warning log
TradePath ==
    Temp("read", "CORE_STATE") \o Temp("read", "RPC_POOL")
    \o Temp("read", "CORE_STATE") \o <<Await>>
    \o Guarded("read", "CORE_STATE", EmitLogOps)

\* the paths each task may run; "worker" is one spawned task outside the
\* monitor, running a round of the background worker or a batch trade
PathsOf(t) ==
    CASE t = "engine" -> {InitPath, SwitchTokenPath, UnsubscribeTokenPath,
                          UpdateSettingsPath}
      [] t = "pools" -> {PoolsSyncPath, PoolsSwapPath}
      [] t = "checker" -> {RpcCheckerPath}
      [] t = "worker" -> {WorkerPath, TradePath}

AllPaths == UNION {PathsOf(t) : t \in LockTasks}

RECURSIVE HeldAfter(_)
\* the guards alive after the operations ops, oldest first
HeldAfter(ops) ==
    IF ops = <<>> THEN <<>>
    ELSE LET h == HeldAfter(SubSeq(ops, 1, Len(ops) - 1))
             o == ops[Len(ops)]
         IN CASE o.op \in {"read", "write", "lock"} -> Append(h, o)
              [] o.op = "unlock" ->
                     LET i == CHOOSE k \in 1..Len(h) :
                                  h[k].lock = o.lock
                                  /\ \A m \in (k + 1)..Len(h) : h[m].lock # o.lock
                     IN SubSeq(h, 1, i - 1) \o SubSeq(h, i + 1, Len(h))
              [] OTHER -> h

Held(t) == HeldAfter(SubSeq(lockAt[t].path, 1, lockAt[t].pos))
Running(t) == lockAt[t].pos < Len(lockAt[t].path)
NextOp(t) == lockAt[t].path[lockAt[t].pos + 1]

\* the tasks holding a guard of the lock
HoldersOf(lock) == {u \in LockTasks : \E i \in 1..Len(Held(u)) : Held(u)[i].lock = lock}
WritersOf(lock) ==
    {u \in LockTasks : \E i \in 1..Len(Held(u)) :
        Held(u)[i].lock = lock /\ Held(u)[i].op # "read"}

\* std::sync: a write or a Mutex lock waits for every guard, a read for a
\* write guard; a thread that already holds the lock waits for itself
CanAcquire(t, o) ==
    /\ t \notin HoldersOf(o.lock)
    /\ IF o.op = "read" THEN WritersOf(o.lock) = {} ELSE HoldersOf(o.lock) = {}

Blocked(t) ==
    /\ Running(t)
    /\ NextOp(t).op \in {"read", "write", "lock"}
    /\ ~CanAcquire(t, NextOp(t))

\* the tasks t waits for
WaitsFor(t) ==
    IF ~Blocked(t) THEN {}
    ELSE IF NextOp(t).op = "read" /\ t \notin HoldersOf(NextOp(t).lock)
    THEN WritersOf(NextOp(t).lock)
    ELSE HoldersOf(NextOp(t).lock)

lockRest == <<bridgeVars, SHUTDOWN_FLAG, RPC_POOL, coreVars, taskVars, histVars,
              TRACKED_WALLETS, wrapped_native_address, fuel_enabled, fuel_threshold,
              fuel_amount, fuel_quote_address, auto_fuel_attempts, now, fuelLog, pnlVars>>

\* a suspended task is resumed on one of its paths
StartPath(t, p) ==
    /\ ~Running(t)
    /\ p \in PathsOf(t)
    /\ lockAt' = [lockAt EXCEPT ![t] = [path |-> p, pos |-> 0]]
    /\ UNCHANGED lockRest

\* the task's next acquisition (when the lock lets it) or release
LockStep(t) ==
    /\ Running(t)
    /\ NextOp(t).op # "await"
    /\ ~Blocked(t)
    /\ lockAt' = [lockAt EXCEPT ![t].pos = @ + 1]
    /\ UNCHANGED lockRest

\* the future the task awaits in mid-path completes
AwaitStep(t) ==
    /\ Running(t)
    /\ NextOp(t).op = "await"
    /\ lockAt' = [lockAt EXCEPT ![t].pos = @ + 1]
    /\ UNCHANGED lockRest

NextLocks ==
    \/ \E t \in LockTasks, p \in AllPaths : StartPath(t, p)
    \/ \E t \in LockTasks : LockStep(t)
    \/ \E t \in LockTasks : AwaitStep(t)

SpecLocks == InitSwitch /\ [][NextLocks]_vars

RECURSIVE WaitReach(_, _)
\* the tasks reached from S along WaitsFor in at most n steps
WaitReach(S, n) ==
    IF n = 0 THEN S
    ELSE WaitReach(S \cup UNION {WaitsFor(u) : u \in S}, n - 1)

\* lock a is held while lock b is acquired, somewhere on some path
OrderEdges ==
    {<<HeldAfter(SubSeq(p, 1, i - 1))[k].lock, p[i].lock>> :
        <<p, i, k>> \in {<<q, j, m>> \in AllPaths \X (1..30) \X (1..4) :
                            /\ j <= Len(q)
                            /\ q[j].op \in {"read", "write", "lock"}
                            /\ m <= Len(HeldAfter(SubSeq(q, 1, j - 1)))}}

LockNames == {e[1] : e \in OrderEdges} \cup {e[2] : e \in OrderEdges}

RECURSIVE OrderReach(_, _)
\* the locks acquired, directly or through others, while one of S is held
OrderReach(S, n) ==
    IF n = 0 THEN S
    ELSE OrderReach(S \cup {e[2] : e \in {x \in OrderEdges : x[1] \in S}}, n - 1)

\* a suspended task: between two paths, or at an await in mid-path
Suspended(t) == ~Running(t) \/ NextOp(t).op = "await"

\* C28: no task is suspended while it holds a write guard of CORE_STATE,
\* RPC_POOL or TRACKED_WALLETS; the order in which locks are taken while
\* others are held has no cycle; and no tasks wait for each other in a
\* circle (nor a task for itself).
C28_NoDeadlock ==
    /\ \A t \in LockTasks :
          Suspended(t) =>
              \A i \in 1..Len(Held(t)) :
                  ~(Held(t)[i].op = "write"
                      /\ Held(t)[i].lock \in {"CORE_STATE", "RPC_POOL", "TRACKED_WALLETS"})
    /\ \A l \in LockNames :
          l \notin OrderReach({e[2] : e \in {x \in OrderEdges : x[1] = l}},
                              Cardinality(LockNames))
    /\ \A t \in LockTasks : t \notin WaitReach(WaitsFor(t), Cardinality(LockTasks))

\* the command loop holds CORE_STATE's write guard and is taking RPC_POOL
\* inside it while the health checker holds RPC_POOL and pools_task waits
\* for CORE_STATE
C28_Witness ==
    /\ Blocked("engine")
    /\ NextOp("engine").lock = "RPC_POOL"
    /\ "checker" \in WaitsFor("engine")
    /\ "engine" \in WaitsFor("pools")

(***************************************************************************)
(* The reconnect delay of run_forever.  The supervisor's loop is followed    *)
(* alone: head of the loop, connection attempt, session, sleep.  `fails`     *)
(* counts the connection attempts made since the last successful connect,    *)
(* `prev` is the delay slept before the current one.                         *)
(***************************************************************************)
RECONNECT_DELAY_SECS == 3
MaxBackoffAttempts == 40

\* the delay without the cap of 30 s
reconnect_delay_Uncapped(attempt) == RECONNECT_DELAY_SECS * (1 + attempt \div 3)

\* std::cmp::min(RECONNECT_DELAY_SECS * (1 + attempt / 3) as u64, 30)
reconnect_delay(attempt) ==
    IF RECONNECT_DELAY_SECS * (1 + attempt \div 3) < 30
    THEN RECONNECT_DELAY_SECS * (1 + attempt \div 3)
    ELSE 30

BackoffRest == <<bridgeVars, SHUTDOWN_FLAG, RPC_POOL, coreVars, engine, sessions, trades,
                 histVars, fuelVars>>

\* head of the loop: the flag is down, attempt += 1
BackoffHead ==
    /\ monitor.pc = "head"
    /\ monitor.attempt < MaxBackoffAttempts
    /\ monitor' = [monitor EXCEPT !.pc = "connect", !.attempt = @ + 1, !.fails = @ + 1]
    /\ UNCHANGED BackoffRest

\* Provider::<Ws>::connect fails: the delay is computed from attempt
BackoffConnectFail ==
    /\ monitor.pc = "connect"
    /\ monitor' = [monitor EXCEPT !.pc = "sleep", !.after = "fail",
                                  !.prev = [delay |-> monitor.delay, after |-> monitor.after],
                                  !.delay = reconnect_delay(monitor.attempt)]
    /\ UNCHANGED BackoffRest

\* the connection is made: attempt = 0, the session runs
BackoffConnectOk ==
    /\ monitor.pc = "connect"
    /\ monitor' = [monitor EXCEPT !.pc = "session", !.attempt = 0, !.fails = 0]
    /\ UNCHANGED BackoffRest

\* the session ends with a reason other than Shutdown
BackoffSessionEnd ==
    /\ monitor.pc = "session"
    /\ monitor' = [monitor EXCEPT !.pc = "sleep", !.after = "session",
                                  !.prev = [delay |-> monitor.delay, after |-> monitor.after],
                                  !.delay = reconnect_delay(monitor.attempt)]
    /\ UNCHANGED BackoffRest

\* the sleep is over
BackoffWake ==
    /\ monitor.pc = "sleep"
    /\ monitor' = [monitor EXCEPT !.pc = "head"]
    /\ UNCHANGED BackoffRest

InitBackoff ==
    /\ InitBridge
    /\ SHUTDOWN_FLAG = FALSE
    /\ RPC_POOL = <<RpcNode("rpc", 100, TRUE, 0)>>
    /\ pending_txs = {}
    /\ selected_pool_type = None
    /\ selected_pool_address = None
    /\ selected_pool_liquidity_usd = 0
    /\ selected_pool_spot_price = 0
    /\ v2_reserves = EmptyMap
    /\ v3_states = EmptyMap
    /\ wallet_keys = WalletMap(EmptyMap, FuelWallets)
    /\ router_address = "0xrouter"
    /\ usd_prices = EmptyMap
    /\ nonce_map = EmptyMap
    /\ poisoned = FALSE
    /\ engine = [pc |-> "recv", init |-> None, received |-> MaxCmds,
                 rpc_checker |-> NoChecker]
    /\ monitor = [pc |-> "head", attempt |-> 0, fails |-> 0, delay |-> 0, after |-> "none",
                  prev |-> [delay |-> 0, after |-> "none"]]
    /\ sessions = <<>>
    /\ trades = <<>>
    /\ txCount = 0
    /\ epoch = 1
    /\ signedAt = EmptyMap
    /\ bcastLog = <<>>
    /\ nonceLog = <<>>
    /\ lastPoll = None
    /\ lastCmd = Some([kind |-> "SwitchToken", bad |-> FALSE])
    /\ TRACKED_WALLETS = TrackedOf(FuelWallets)
    /\ wrapped_native_address = "0xwnative"
    /\ fuel_enabled = FALSE
    /\ fuel_threshold = 0
    /\ fuel_amount = 0
    /\ fuel_quote_address = "0xquote"
    /\ auto_fuel_attempts = EmptyMap
    /\ now = StartClock
    /\ fuelLog = <<>>
    /\ lockAt = NoPaths
    /\ PNL_STATE = EmptyMap
    /\ PNL_TASKS = EmptyMap
    /\ pnl_workers = <<>>

NextBackoff ==
    \/ BackoffHead
    \/ BackoffConnectFail
    \/ BackoffConnectOk
    \/ BackoffSessionEnd
    \/ BackoffWake

SpecBackoff == InitBackoff /\ [][NextBackoff]_vars

\* C32: the delay slept before a reconnect is min(3 * (1 + attempt / 3), 30)
\* seconds, attempt being the number of connection attempts since the last
\* successful connect; it lies between 3 and 30, is not smaller than the
\* delay before it when both follow failed attempts, and is 3 after a
\* session that had been connected.
C32_ReconnectDelay ==
    monitor.pc = "sleep" =>
        /\ monitor.attempt = monitor.fails
        /\ monitor.delay = IF 3 * (1 + monitor.fails \div 3) <= 30
                           THEN 3 * (1 + monitor.fails \div 3)
                           ELSE 30
        /\ monitor.delay >= 3
        /\ monitor.delay <= 30
        /\ (monitor.after = "fail" /\ monitor.prev.after = "fail")
              => monitor.delay >= monitor.prev.delay
        /\ monitor.after = "session" => monitor.delay = 3

\* the cap is in force after a failure that follows a capped failure
C32_Witness ==
    /\ monitor.pc = "sleep"
    /\ monitor.after = "fail"
    /\ monitor.prev.after = "fail"
    /\ monitor.delay = 30
    /\ monitor.prev.delay = 30
    /\ 3 * (1 + monitor.fails \div 3) > 30

(***************************************************************************)
(* min_out (execution.rs 431-433).  U256 is scaled to a word of 17 bits so  *)
(* that the products stay within the checker's integers: a product          *)
(* overflows the word exactly when it exceeds U256Max, as U256's `*`, which  *)
(* panics on overflow, does at 2^256 - 1.  Slippage is in whole percent.     *)
(***************************************************************************)
U256Max == 131071

\* U256 * U256: the product, or a panic ("arithmetic operation overflow")
U256Mul(a, b) == [panics |-> a * b > U256Max, val |-> (a * b) % (U256Max + 1)]

\* (exp_out * U256::from(slippage_factor)) / U256::from(10000)
min_out(exp_out, slippage) ==
    LET product == U256Mul(exp_out, slippage_factor(slippage)) IN
    [panics |-> product.panics, val |-> product.val \div 10000]

\* the quotes and the slippages (percent) the computation is run over
MinOutQuotes == {0, 1, 7, 13, 14, 100, 9999, 10000, 65536, U256Max}
MinOutSlippages == {0 - 5, 0, 1, 50, 99, 100, 150}

MinOutRest == <<bridgeVars, SHUTDOWN_FLAG, RPC_POOL, coreVars, engine, monitor, sessions,
                histVars, fuelVars>>

\* run_batch_trade from the quote to min_out, for the wallet at hand
MinOutStep(t) ==
    LET r == min_out(trades[t].exp_out, trades[t].slippage) IN
    /\ t \in DOMAIN trades
    /\ trades[t].pc = "quoted"
    /\ trades' = [trades EXCEPT ![t].pc = IF r.panics THEN "panicked" ELSE "calldata",
                                ![t].min_out = IF r.panics THEN 0 ELSE r.val]
    /\ UNCHANGED MinOutRest

InitMinOut ==
    /\ InitBridge
    /\ SHUTDOWN_FLAG = FALSE
    /\ RPC_POOL = <<RpcNode("rpc", 100, TRUE, 0)>>
    /\ pending_txs = {}
    /\ selected_pool_type = Some("V3")
    /\ selected_pool_address = Some(ThePool)
    /\ selected_pool_liquidity_usd = 4000
    /\ selected_pool_spot_price = 1
    /\ v2_reserves = EmptyMap
    /\ v3_states = MapPut(EmptyMap, ThePool, V3PoolState(U256(0, 1), 4000, 2500))
    /\ wallet_keys = WalletMap(EmptyMap, FuelWallets)
    /\ router_address = "0xrouter"
    /\ usd_prices = EmptyMap
    /\ nonce_map = EmptyMap
    /\ poisoned = FALSE
    /\ engine = [pc |-> "recv", init |-> None, received |-> MaxCmds,
                 rpc_checker |-> NoChecker]
    /\ monitor = NoMonitor
    /\ sessions = <<>>
    /\ \E e \in MinOutQuotes, s \in MinOutSlippages :
          trades = <<[pc |-> "quoted", exp_out |-> e, slippage |-> s, min_out |-> 0]>>
    /\ txCount = 0
    /\ epoch = 1
    /\ signedAt = EmptyMap
    /\ bcastLog = <<>>
    /\ nonceLog = <<>>
    /\ lastPoll = None
    /\ lastCmd = Some([kind |-> "ExecuteTrade", bad |-> FALSE])
    /\ TRACKED_WALLETS = TrackedOf(FuelWallets)
    /\ wrapped_native_address = "0xwnative"
    /\ fuel_enabled = FALSE
    /\ fuel_threshold = 0
    /\ fuel_amount = 0
    /\ fuel_quote_address = "0xquote"
    /\ auto_fuel_attempts = EmptyMap
    /\ now = StartClock
    /\ fuelLog = <<>>
    /\ lockAt = NoPaths
    /\ PNL_STATE = EmptyMap
    /\ PNL_TASKS = EmptyMap
    /\ pnl_workers = <<>>

NextMinOut == \E t \in {1} : MinOutStep(t)

SpecMinOut == InitMinOut /\ [][NextMinOut]_vars

\* C33: for every expected_out and slippage run_batch_trade gets past the
\* product without overflow, with min_out = expected_out * factor / 10000,
\* factor = 10000 - slippage * 100 clamped to [0, 10000]; so min_out <=
\* expected_out, min_out = expected_out for slippage <= 0 and min_out = 0
\* for slippage >= 100.
C33_MinOut ==
    \A t \in DOMAIN trades :
        trades[t].pc # "quoted" =>
            /\ trades[t].pc = "calldata"
            /\ trades[t].min_out <= trades[t].exp_out
            /\ trades[t].slippage <= 0 => trades[t].min_out = trades[t].exp_out
            /\ trades[t].slippage >= 100 => trades[t].min_out = 0

\* the same for the quotes whose product fits the word
C33_MinOutWhenFits ==
    \A t \in DOMAIN trades :
        trades[t].pc = "calldata" =>
            /\ trades[t].min_out <= trades[t].exp_out
            /\ trades[t].slippage <= 0 => trades[t].min_out = trades[t].exp_out
            /\ trades[t].slippage >= 100 => trades[t].min_out = 0
            /\ trades[t].min_out * 10000 <= trades[t].exp_out * slippage_factor(trades[t].slippage)
            /\ (trades[t].min_out + 1) * 10000
                   > trades[t].exp_out * slippage_factor(trades[t].slippage)

(***************************************************************************)
(* transfers_task (monitor.rs 479-553).  A session of this part holds the    *)
(* Transfer stream alone: the logs it has taken (history), the balance       *)
(* queries it has spawned and not yet finished, and those that finished.     *)
(***************************************************************************)
MaxTransferLogs == 2

TransferLog(tx, address, from, to) == [tx |-> tx, address |-> address, from |-> from, to |-> to]

\* Transfer logs of the two watched tokens, of two transactions
TransferLogs ==
    {TransferLog(tx, a, f, t) : tx \in {"h1", "h2"}, a \in {"0xtoken", "0xquote"},
                                f \in {"0xwa", "0xother"}, t \in {"0xwa", "0xother"}}

\* the balance queries the task spawns for a log, numbered n-th log taken
SpawnedFor(log, n, wallets) ==
    (IF log.to \in Range(wallets)
     THEN {[log |-> n, wallet |-> log.to, token |-> log.address]} ELSE {})
    \cup
    (IF log.from \in Range(wallets)
     THEN {[log |-> n, wallet |-> log.from, token |-> log.address]} ELSE {})

\* every query a log may give rise to
TransferQueries ==
    UNION {SpawnedFor(log, n, TrackedOf(FuelWallets)) :
              log \in TransferLogs, n \in 1..MaxTransferLogs}

\* the answers of balance_of: an error, or the balance
TransferBalances == {None, Some(1), Some(2)}

TransferRest == <<SHUTDOWN_FLAG, RPC_POOL, coreVars, engine, monitor, trades, histVars,
                  fuelVars>>

\* the stream yields a log: leave on shutdown, else decode it and spawn a
\* balance query for the tracked receiver and one for the tracked sender
TransfersNext(s, log) ==
    LET ss == sessions[s] IN
    /\ s \in DOMAIN sessions
    /\ ss.transfers = "live"
    /\ Len(ss.taken) < MaxTransferLogs
    /\ IF SHUTDOWN_FLAG
       THEN sessions' = [sessions EXCEPT ![s].transfers = "shutdown"]
       ELSE sessions' = [sessions EXCEPT
                            ![s].taken = Append(@, log),
                            ![s].spawned = @ \cup SpawnedFor(log, Len(ss.taken) + 1,
                                                             ss.wallets)]
    /\ UNCHANGED bridgeVars
    /\ UNCHANGED TransferRest

\* a spawned query ends: BalanceUpdate with the balance read, nothing on an
\* error of the call
TransfersBalance(s, q, r) ==
    /\ s \in DOMAIN sessions
    /\ q \in sessions[s].spawned
    /\ sessions' = [sessions EXCEPT ![s].spawned = @ \ {q},
                                    ![s].queried = Append(@, [q |-> q, balance |-> r])]
    /\ IF r.some
       THEN TaskEmits(<<EvBalanceUpdate(q.wallet, q.token, r.val, "TOKEN")>>)
       ELSE UNCHANGED bridgeVars
    /\ UNCHANGED TransferRest

InitTransfers ==
    /\ InitBridge
    /\ SHUTDOWN_FLAG = FALSE
    /\ RPC_POOL = <<RpcNode("rpc", 100, TRUE, 0)>>
    /\ pending_txs = {}
    /\ selected_pool_type = None
    /\ selected_pool_address = None
    /\ selected_pool_liquidity_usd = 0
    /\ selected_pool_spot_price = 0
    /\ v2_reserves = EmptyMap
    /\ v3_states = EmptyMap
    /\ wallet_keys = WalletMap(EmptyMap, FuelWallets)
    /\ router_address = "0xrouter"
    /\ usd_prices = EmptyMap
    /\ nonce_map = EmptyMap
    /\ poisoned = FALSE
    /\ engine = [pc |-> "recv", init |-> None, received |-> MaxCmds,
                 rpc_checker |-> NoChecker]
    /\ monitor = NoMonitor
    /\ sessions = <<[transfers |-> "live", wallets |-> TrackedOf(FuelWallets),
                     taken |-> <<>>, spawned |-> {}, queried |-> <<>>]>>
    /\ trades = <<>>
    /\ txCount = 0
    /\ epoch = 1
    /\ signedAt = EmptyMap
    /\ bcastLog = <<>>
    /\ nonceLog = <<>>
    /\ lastPoll = None
    /\ lastCmd = Some([kind |-> "SwitchToken", bad |-> FALSE])
    /\ TRACKED_WALLETS = TrackedOf(FuelWallets)
    /\ wrapped_native_address = "0xwnative"
    /\ fuel_enabled = FALSE
    /\ fuel_threshold = 0
    /\ fuel_amount = 0
    /\ fuel_quote_address = "0xquote"
    /\ auto_fuel_attempts = EmptyMap
    /\ now = StartClock
    /\ fuelLog = <<>>
    /\ lockAt = NoPaths
    /\ PNL_STATE = EmptyMap
    /\ PNL_TASKS = EmptyMap
    /\ pnl_workers = <<>>

NextTransfers ==
    \/ \E s \in {1}, log \in TransferLogs : TransfersNext(s, log)
    \/ \E s \in {1}, r \in TransferBalances, q \in TransferQueries :
          TransfersBalance(s, q, r)

SpecTransfers == InitTransfers /\ [][NextTransfers]_vars

\* the n-th log taken is not the first of its transaction
RepeatedHash(ss, n) == \E k \in 1..(n - 1) : ss.taken[k].tx = ss.taken[n].tx

\* C31: a Transfer log whose transaction hash was observed before triggers
\* no balance query and no BalanceUpdate: every query spawned or finished
\* belongs to the first log of its transaction.
C31_DuplicateHashFiltered ==
    \A s \in DOMAIN sessions :
        /\ \A q \in sessions[s].spawned : ~RepeatedHash(sessions[s], q.log)
        /\ \A i \in 1..Len(sessions[s].queried) :
              ~RepeatedHash(sessions[s], sessions[s].queried[i].q.log)

\* what the task does instead: every log that names a tracked wallet gets
\* its queries, whatever its hash
C31_EveryLogQueried ==
    \A s \in DOMAIN sessions :
        \A n \in 1..Len(sessions[s].taken) :
            \A q \in SpawnedFor(sessions[s].taken[n], n, sessions[s].wallets) :
                \/ q \in sessions[s].spawned
                \/ \E i \in 1..Len(sessions[s].queried) : sessions[s].queried[i].q = q

(***************************************************************************)
(* The derived fields of the selection under pool logs: two pairs, V2 and   *)
(* V3 pools, sessions of the previous pair still delivering.                *)
(***************************************************************************)
\* a Sync, a Swap whose price fits 128 bits and one whose price is 2^128
WatchedLogs == {SyncLog(5000, 1000), SwapLog(U256(0, 1), 5), SwapLog(U256(1, 0), 5)}

\* the engine initialised, two commands from its bound
InitPoolLogs ==
    /\ InitBridge
    /\ SHUTDOWN_FLAG = FALSE
    /\ RPC_POOL = <<RpcNode("rpc", 100, TRUE, 0)>>
    /\ pending_txs = {}
    /\ selected_pool_type = None
    /\ selected_pool_address = None
    /\ selected_pool_liquidity_usd = 0
    /\ selected_pool_spot_price = 0
    /\ v2_reserves = EmptyMap
    /\ v3_states = EmptyMap
    /\ wallet_keys = WalletMap(EmptyMap, OneWalletInit.wallets)
    /\ router_address = "0xrouter"
    /\ usd_prices = EmptyMap
    /\ nonce_map = EmptyMap
    /\ poisoned = FALSE
    /\ engine = [pc |-> "recv", init |-> None, received |-> MaxCmds - 2,
                 rpc_checker |-> NewChecker(<<"rpc">>)]
    /\ monitor = NoMonitor
    /\ sessions = <<>>
    /\ trades = <<>>
    /\ txCount = 0
    /\ epoch = 1
    /\ signedAt = EmptyMap
    /\ bcastLog = <<>>
    /\ nonceLog = <<>>
    /\ lastPoll = None
    /\ lastCmd = Some([kind |-> "Init", bad |-> FALSE])
    /\ TRACKED_WALLETS = TrackedOf(OneWalletInit.wallets)
    /\ wrapped_native_address = "0xwnative"
    /\ fuel_enabled = FALSE
    /\ fuel_threshold = 0
    /\ fuel_amount = 0
    /\ fuel_quote_address = ZeroAddress
    /\ auto_fuel_attempts = EmptyMap
    /\ now = StartClock
    /\ fuelLog = <<>>
    /\ lockAt = NoPaths
    /\ PNL_STATE = EmptyMap
    /\ PNL_TASKS = EmptyMap
    /\ pnl_workers = <<>>

NextPoolLogs ==
    \/ \E c \in PairSwitches : CmdSwitchToken(c)
    \/ \E f \in {"V2", "V3"} : MonitorDiscover(f)
    \/ \E r \in {PrefetchV2(2000, 1000, TRUE), PrefetchV3(U256(0, 1), 50, TRUE)} :
          MonitorPrefetch(r)
    \/ MonitorConnectUpTo(MaxSupSessions)
    \/ \E s \in Sessions, log \in WatchedLogs : PoolLog(s, log)

SpecPoolLogs == InitPoolLogs /\ [][NextPoolLogs]_vars

\* the log's values cannot be computed: as_u128 panics on its price
LogPanics(log) == log.kind = "Swap" /\ V3CalcPanics(log.sqrtp, log.liquidity)

\* the spot price and the liquidity calculated from a log
LogSpotPrice(log) ==
    IF log.kind = "Sync" THEN V2Price(log.r0, log.r1) ELSE V3Price(log.sqrtp, log.liquidity)
LogLiquidityUsd(log) ==
    IF log.kind = "Sync" THEN V2LiquidityUsd(log.r0, log.r1)
    ELSE V3LiquidityUsd(log.sqrtp, log.liquidity)

\* what the claim says of the step on which pools_task handles log
LogEffect(s, log) ==
    LET pool == PoolOf(sessions[s].token) IN
    /\ selected_pool_address # Some(pool)
          => UNCHANGED <<selected_pool_spot_price, selected_pool_liquidity_usd>>
    /\ selected_pool_address = Some(pool)
          => /\ ~LogPanics(log)
             /\ sessions'[s].pools = "live"
             /\ selected_pool_spot_price' = LogSpotPrice(log)
             /\ selected_pool_liquidity_usd' = LogLiquidityUsd(log)
    /\ (log.kind = "Swap" /\ pool \notin DOMAIN v3_states)
          => pool \notin DOMAIN v3_states'

\* C34: a Sync or Swap log of a pool that is not the selected one leaves the
\* selection's spot price and liquidity unchanged; a log of the selected
\* pool sets both to the values calculated from the log; a Swap log of a
\* pool without an entry in v3_states creates none.
C34_PoolLogFrame ==
    [][\A s \in Sessions, log \in WatchedLogs :
          (~SHUTDOWN_FLAG /\ PoolLog(s, log)) => LogEffect(s, log)]_vars

\* the same for the logs whose values can be calculated, the lock not being
\* poisoned
C34_PoolLogFrameComputable ==
    [][\A s \in Sessions, log \in WatchedLogs :
          (~SHUTDOWN_FLAG /\ ~poisoned /\ ~LogPanics(log) /\ PoolLog(s, log))
              => LogEffect(s, log)]_vars

(***************************************************************************)
(* The swap broadcast of run_batch_trade at the grain of its two effects:   *)
(* the insert into pending_txs under the write guard, then emit_event of     *)
(* TxSent.  The trade task and the pending-tx poller are tasks of the        *)
(* multi-threaded runtime: the poller may run between the two.               *)
(***************************************************************************)
\* parallel_broadcast returned: on a "0x" hash the insert into pending_txs;
\* else TradeStatus Error is queued and the loop goes to the next wallet
TradeSwapInsert(t, accepts) ==
    LET tr == trades[t]
        hash == parallel_broadcast(RPC_POOL, tr.hash, accepts)
        is_success == StartsWith0x(hash)
        t1 == [tr EXCEPT !.events = Append(@,
                  EvTradeStatus(tr.wallet, tr.action, "Error", hash, None))]
    IN /\ tr.pc = "swap_bcast"
       /\ IF poisoned /\ (is_success \/ tr.keys # <<>>)
          THEN /\ TradePanic(t)
               /\ UNCHANGED <<bridgeVars, pending_txs, txCount, signedAt>>
          ELSE IF is_success
          THEN /\ pending_txs' = pending_txs \cup {tr.hash}
               /\ trades' = [trades EXCEPT ![t].pc = "tx_sent"]
               /\ UNCHANGED <<bridgeVars, txCount, signedAt>>
          ELSE /\ pending_txs' = pending_txs
               /\ Continue(t, <<>>, WalletLoop(t1))
       /\ UNCHANGED <<SHUTDOWN_FLAG, RPC_POOL, selected_pool_type,
                      selected_pool_address,
                      selected_pool_liquidity_usd, selected_pool_spot_price,
                      v2_reserves, v3_states, wallet_keys,
                      router_address, usd_prices, nonce_map, poisoned, engine, monitor, sessions,
                      epoch, lastPoll, lastCmd>>
       /\ bcastLog' = Append(bcastLog, Broadcast(tr, "swap", accepts, hash))
       /\ nonceLog' = IF is_success
                      THEN Append(nonceLog, Sent(tr.wallet, tr.nonce, "swap"))
                      ELSE nonceLog
       /\ UNCHANGED fuelVars

\* emit_event(TxSent) after the insert, TradeStatus Sent queued, next wallet
TradeSwapEmit(t) ==
    LET tr == trades[t]
        hash == HexHash(tr.hash)
        t1 == [tr EXCEPT !.events = Append(@,
                  EvTradeStatus(tr.wallet, tr.action, "Sent", hash, Some(hash)))]
    IN /\ tr.pc = "tx_sent"
       /\ IF poisoned /\ tr.keys # <<>>
          THEN /\ TradePanic(t)
               /\ Emits(<<EvTxSent(hash, tr.wallet, tr.action)>>)
               /\ UNCHANGED <<txCount, signedAt>>
          ELSE Continue(t, <<EvTxSent(hash, tr.wallet, tr.action)>>, WalletLoop(t1))
       /\ UNCHANGED <<SHUTDOWN_FLAG, RPC_POOL, coreVars, engine, monitor, sessions,
                      epoch, bcastLog, nonceLog, lastPoll, lastCmd>>
       /\ UNCHANGED fuelVars

\* both wallets have a key: the batch signs one swap for each
SentWallets == <<<<"0xwa", "kA">>, <<"0xwb", "kB">>>>

\* the engine initialised with a V2 pool selected, the supervisor about to
\* connect, one command still to come
InitSent ==
    /\ InitBridge
    /\ SHUTDOWN_FLAG = FALSE
    /\ RPC_POOL = <<RpcNode("rpc", 100, TRUE, 0)>>
    /\ pending_txs = {}
    /\ selected_pool_type = Some("V2")
    /\ selected_pool_address = Some(ThePool)
    /\ selected_pool_liquidity_usd = 4000
    /\ selected_pool_spot_price = 2
    /\ v2_reserves = MapPut(EmptyMap, ThePool, <<2000, 1000>>)
    /\ v3_states = EmptyMap
    /\ wallet_keys = WalletMap(EmptyMap, SentWallets)
    /\ router_address = "0xrouter"
    /\ usd_prices = EmptyMap
    /\ nonce_map = EmptyMap
    /\ poisoned = FALSE
    /\ engine = [pc |-> "recv", init |-> None, received |-> MaxCmds - 1,
                 rpc_checker |-> NoChecker]
    /\ monitor = [NewMonitor("0xtoken", "0xwnative") EXCEPT
                     !.pc = "connect", !.kind = "V2",
                     !.wallets = TrackedOf(SentWallets), !.attempt = 1]
    /\ sessions = <<>>
    /\ trades = <<>>
    /\ txCount = 0
    /\ epoch = 1
    /\ signedAt = EmptyMap
    /\ bcastLog = <<>>
    /\ nonceLog = <<>>
    /\ lastPoll = None
    /\ lastCmd = Some([kind |-> "Init", bad |-> FALSE])
    /\ TRACKED_WALLETS = TrackedOf(SentWallets)
    /\ wrapped_native_address = "0xwnative"
    /\ fuel_threshold = bnb_to_wei(1)
    /\ fuel_enabled = FALSE
    /\ fuel_amount = bnb_to_wei(1)
    /\ fuel_quote_address = "0xwnative"
    /\ auto_fuel_attempts = EmptyMap
    /\ now = StartClock
    /\ fuelLog = <<>>
    /\ lockAt = NoPaths
    /\ PNL_STATE = EmptyMap
    /\ PNL_TASKS = EmptyMap
    /\ pnl_workers = <<>>

\* a buy for both wallets: two swaps in a row
SentCommands == {[TradeCommand("buy", None) EXCEPT !.wallets = <<"0xwa", "0xwb">>]}

NextSent ==
    \/ \E c \in SentCommands : CmdExecuteTrade(c)
    \/ MonitorConnectUpTo(1)
    \/ \E s \in Sessions : PollerTick(s)
    \/ \E s \in Sessions, o \in ReceiptOutcomes : PollerReceipt(s, o)
    \/ \E t \in Trades : TradeStart(t)
    \/ \E t \in Trades, acc \in AcceptSets(RPC_POOL) : TradeSwapInsert(t, acc)
    \/ \E t \in Trades : TradeSwapEmit(t)
    \/ \E t \in Trades : TradeReturn(t)

SpecSent == InitSent /\ [][NextSent]_vars

\* the first position of calls at which an event of kind k for hash h was
\* handed to emit_event; 0 when none was
FirstCall(k, h) ==
    LET at == {i \in 1..Len(calls) :
                  calls[i].ev.type = k /\ calls[i].ev.tx_hash = HexHash(h)}
    IN IF at = {} THEN 0 ELSE CHOOSE i \in at : \A j \in at : i <= j

\* C35: for every swap transaction hash the TxSent event is enqueued before
\* the TxConfirmed event of the same hash, in every interleaving of the
\* trade task with the pending-tx poller.
C35_SentBeforeConfirmed ==
    \A h \in 1..txCount :
        FirstCall("TxConfirmed", h) # 0 =>
            /\ FirstCall("TxSent", h) # 0
            /\ FirstCall("TxSent", h) < FirstCall("TxConfirmed", h)

\* what does hold: a hash is confirmed only after its insert into
\* pending_txs, that is after a swap broadcast that returned it
C35_ConfirmedAfterInsert ==
    \A h \in 1..txCount :
        FirstCall("TxConfirmed", h) # 0 =>
            \E i \in 1..Len(bcastLog) :
                /\ bcastLog[i].kind = "swap"
                /\ bcastLog[i].result = HexHash(h)

(***************************************************************************)
(* The pending-tx poller across a reconnect: a stream of the session ends,  *)
(* run_forever opens the next session, and the poller of the session that   *)
(* was left goes on next to the new one.                                    *)
(***************************************************************************)
OnceOutcomes == {"success", "none"}

NextOnce ==
    \/ \E c \in SentCommands : CmdExecuteTrade(c)
    \/ MonitorConnectUpTo(MaxSupSessions)
    \/ MonitorPrefetch(PrefetchNone)
    \/ \E s \in Sessions : PoolStreamEnds(s)
    \/ \E s \in Sessions : MonitorSessionEnd(s, "StreamEnded(pools)")
    \/ \E s \in Sessions : PollerTick(s)
    \/ \E s \in Sessions, o \in OnceOutcomes : PollerReceipt(s, o)
    \/ \E t \in Trades : TradeStart(t)
    \/ \E t \in Trades, acc \in AcceptSets(RPC_POOL) : TradeSwapBroadcast(t, acc)
    \/ \E t \in Trades : TradeReturn(t)

SpecOnce == InitSent /\ [][NextOnce]_vars

\* the calls of emit_event with a TxConfirmed of hash h
ConfirmedCalls(h) ==
    {i \in 1..Len(calls) :
        calls[i].ev.type = "TxConfirmed" /\ calls[i].ev.tx_hash = HexHash(h)}

\* C36: for every hash inserted into the pending-tx set at most one
\* TxConfirmed event is emitted, across WebSocket reconnects, SwitchToken
\* restarts and engine re-init.
C36_ConfirmedOnce ==
    \A h \in 1..txCount : Cardinality(ConfirmedCalls(h)) <= 1

\* what does hold: a hash is confirmed at most once by each poller that was
\* started, so at most once per session opened
C36_OncePerSession ==
    \A h \in 1..txCount : Cardinality(ConfirmedCalls(h)) <= Len(sessions)

(***************************************************************************)
(* emit_event called from several tasks at once.  The write guard of the    *)
(* kind's cache is a local of the match arm: it is released when the arm    *)
(* has computed should_send, and send_to_python runs after that, so a call  *)
(* is two steps with other calls in between.                                *)
(***************************************************************************)
\* tasks that call emit_event, and the calls each of them makes
Emitters == 2
MaxEmits == 2

\* the events the tasks emit: gas prices and balances
EmittedEvents ==
    GasEvents \cup {EvBalanceUpdate("wA", "native", w, "NATIVE") : w \in {1, 2}}

\* the tasks idle, each with its calls still to make
InitEmit ==
    /\ InitBridge
    /\ SHUTDOWN_FLAG = FALSE
    /\ RPC_POOL = <<RpcNode("rpc", 100, TRUE, 0)>>
    /\ pending_txs = {}
    /\ selected_pool_type = Some("V2")
    /\ selected_pool_address = Some(ThePool)
    /\ selected_pool_liquidity_usd = 4000
    /\ selected_pool_spot_price = 2
    /\ v2_reserves = MapPut(EmptyMap, ThePool, <<2000, 1000>>)
    /\ v3_states = EmptyMap
    /\ wallet_keys = WalletMap(EmptyMap, SentWallets)
    /\ router_address = "0xrouter"
    /\ usd_prices = EmptyMap
    /\ nonce_map = EmptyMap
    /\ poisoned = FALSE
    /\ engine = [pc |-> "recv", init |-> None, received |-> MaxCmds,
                 rpc_checker |-> NoChecker]
    /\ monitor = [NewMonitor("0xtoken", "0xwnative") EXCEPT
                     !.pc = "connect", !.kind = "V2",
                     !.wallets = TrackedOf(SentWallets), !.attempt = 1]
    /\ sessions = <<>>
    /\ trades = [p \in 1..Emitters |-> [pc |-> "idle", ev |-> None, left |-> MaxEmits]]
    /\ txCount = 0
    /\ epoch = 1
    /\ signedAt = EmptyMap
    /\ bcastLog = <<>>
    /\ nonceLog = <<>>
    /\ lastPoll = None
    /\ lastCmd = Some([kind |-> "Init", bad |-> FALSE])
    /\ TRACKED_WALLETS = TrackedOf(SentWallets)
    /\ wrapped_native_address = "0xwnative"
    /\ fuel_threshold = bnb_to_wei(1)
    /\ fuel_enabled = FALSE
    /\ fuel_amount = bnb_to_wei(1)
    /\ fuel_quote_address = "0xwnative"
    /\ auto_fuel_attempts = EmptyMap
    /\ now = StartClock
    /\ fuelLog = <<>>
    /\ lockAt = NoPaths
    /\ PNL_STATE = EmptyMap
    /\ PNL_TASKS = EmptyMap
    /\ pnl_workers = <<>>

\* the match of emit_event: compare with the anchor under the cache's write
\* guard and replace it when the payload differs
EmitDecide(p, e) ==
    LET send == should_send(Bridge, e)
        b1 == IF send THEN UpdateCache(Bridge, e) ELSE Bridge
    IN /\ trades[p].pc = "idle"
       /\ trades[p].left > 0
       /\ LAST_BALANCE' = b1.bal
       /\ LAST_POOL' = b1.pool
       /\ LAST_GAS' = b1.gas
       /\ LAST_CONN' = b1.conn
       /\ LAST_IMPACT' = b1.impact
       /\ calls' = Append(calls, [ev |-> e, sent |-> send])
       /\ trades' = [trades EXCEPT ![p] = [pc |-> IF send THEN "send" ELSE "idle",
                                           ev |-> IF send THEN Some(e) ELSE None,
                                           left |-> @.left - 1]]
       /\ UNCHANGED <<BRIDGE_QUEUE, popped, lastPop>>
       /\ UNCHANGED <<SHUTDOWN_FLAG, RPC_POOL, coreVars, engine, monitor, sessions,
                      histVars>>
       /\ UNCHANGED fuelVars

\* `if should_send`: serialise the event and hand it to send_to_python
EmitSend(p) ==
    /\ trades[p].pc = "send"
    /\ BRIDGE_QUEUE' = send_to_python(BRIDGE_QUEUE, ToJson(trades[p].ev.val))
    /\ trades' = [trades EXCEPT ![p].pc = "idle", ![p].ev = None]
    /\ UNCHANGED <<LAST_BALANCE, LAST_POOL, LAST_GAS, LAST_CONN, LAST_IMPACT, calls,
                   popped, lastPop>>
    /\ UNCHANGED <<SHUTDOWN_FLAG, RPC_POOL, coreVars, engine, monitor, sessions,
                   histVars>>
    /\ UNCHANGED fuelVars

NextEmit ==
    \/ \E p \in 1..Emitters, e \in EmittedEvents : EmitDecide(p, e)
    \/ \E p \in 1..Emitters : EmitSend(p)

SpecEmit == InitEmit /\ [][NextEmit]_vars

\* the dedup key of a JSON blob of a deduplicated kind
KeyOfJson(j) ==
    CASE j.type = "BalanceUpdate"  -> j.data.wei
      [] j.type = "GasPriceUpdate" -> F64ToBits(j.data.gas_price_gwei)

\* the anchor the cache of kind k holds
AnchorOf(k) ==
    CASE k = "BalanceUpdate"  -> LAST_BALANCE
      [] k = "GasPriceUpdate" -> LAST_GAS

\* the positions of Delivered that hold a blob of kind k
EnqueuedOf(k) == {i \in 1..Len(Delivered) : Delivered[i].type = k}

\* the key of the blob of kind k that was enqueued last
LastEnqueued(k) ==
    KeyOfJson(Delivered[CHOOSE i \in EnqueuedOf(k) : \A j \in EnqueuedOf(k) : j <= i])

\* no call of emit_event is between its match and its send
NoEmitInFlight == \A p \in DOMAIN trades : trades[p].pc = "idle"

\* C37: when emit_event is called concurrently from several tasks, for each
\* deduplicated kind the anchor held in the dedup cache equals the payload
\* of the event of that kind that was enqueued last (taken when every call
\* has returned).
C37_AnchorIsLastEnqueued ==
    NoEmitInFlight =>
        \A k \in {"BalanceUpdate", "GasPriceUpdate"} :
            EnqueuedOf(k) # {} => AnchorOf(k) = Some(LastEnqueued(k))

\* what does hold: when every call has returned, the anchor of a kind is the
\* payload of an event of that kind that was enqueued, and it is none exactly
\* when no event of the kind was enqueued
C37_AnchorWasEnqueued ==
    NoEmitInFlight =>
        \A k \in {"BalanceUpdate", "GasPriceUpdate"} :
            IF EnqueuedOf(k) = {} THEN AnchorOf(k) = None
            ELSE \E i \in EnqueuedOf(k) : AnchorOf(k) = Some(KeyOfJson(Delivered[i]))

(***************************************************************************)
(* Nonces.  Every transaction takes its nonce from CORE_STATE.nonce_map.    *)
(* run_auto_fuel stores nonce + 1 after a broadcast that returned a hash;   *)
(* run_batch_trade stores nothing; start_background_worker overwrites the   *)
(* entry with the node's transaction count of the latest block.             *)
(***************************************************************************)
\* ExecuteTrade commands received for the one wallet, each a task
NonceTrades == 2

\* a buy for the wallet
NonceCommand == [TradeCommand("buy", None) EXCEPT !.wallets = <<"0xwa">>]

\* the arguments of the run_auto_fuel call under way: a swap of the quote
\* token for the wallet
NonceJob ==
    [pk |-> "kA", wallet |-> "0xwa", router |-> "0xrouter", quote |-> "0xquote",
     amount |-> bnb_to_wei(1)]

\* the nonces of wallet w's broadcasts that returned a hash
SentNonces(w) == {nonceLog[i].nonce : i \in {k \in 1..Len(nonceLog) : nonceLog[k].wallet = w}}

\* get_transaction_count(w, None): the transactions of w in the latest
\* block's state, the nonces below it having been sent
TransactionCounts(w) ==
    {n \in 0..Len(nonceLog) : \A k \in 0..(n - 1) : k \in SentNonces(w)}

\* two ExecuteTrade commands received and their tasks spawned, the session's
\* blocks_task at the call of run_auto_fuel for the wallet
InitNonce ==
    /\ InitBridge
    /\ SHUTDOWN_FLAG = FALSE
    /\ RPC_POOL = <<RpcNode("rpc", 100, TRUE, 0)>>
    /\ pending_txs = {}
    /\ selected_pool_type = Some("V2")
    /\ selected_pool_address = Some(ThePool)
    /\ selected_pool_liquidity_usd = 4000
    /\ selected_pool_spot_price = 2
    /\ v2_reserves = MapPut(EmptyMap, ThePool, <<2000, 1000>>)
    /\ v3_states = EmptyMap
    /\ wallet_keys = WalletMap(EmptyMap, FuelWallets)
    /\ router_address = "0xrouter"
    /\ usd_prices = EmptyMap
    /\ nonce_map = EmptyMap
    /\ poisoned = FALSE
    /\ engine = [pc |-> "recv", init |-> None, received |-> MaxCmds,
                 rpc_checker |-> NoChecker]
    /\ monitor = [NewMonitor("0xtoken", "0xquote") EXCEPT
                     !.pc = "live", !.kind = "V2", !.wallets = TrackedOf(FuelWallets)]
    /\ sessions = <<[poller |-> [pc |-> "tick", todo |-> <<>>], pools |-> "live",
                     logs |-> 0, token |-> "0xtoken", quote |-> "0xquote", opened |-> 1,
                     blocks |-> [NewBlocks(TrackedOf(FuelWallets)) EXCEPT
                                    !.pc = "call", !.todo = <<"0xwa">>, !.seen = 1,
                                    !.balance = bnb_to_wei(1) - 1,
                                    !.job = Some(NonceJob),
                                    !.entry = <<1, StartClock * ClockUnit>>]]>>
    /\ trades = [t \in 1..NonceTrades |->
                     NewTrade(<<"kA">>, "0xrouter", NonceCommand)]
    /\ txCount = 0
    /\ epoch = 1
    /\ signedAt = EmptyMap
    /\ bcastLog = <<>>
    /\ nonceLog = <<>>
    /\ lastPoll = None
    /\ lastCmd = Some([kind |-> "ExecuteTrade", bad |-> FALSE])
    /\ TRACKED_WALLETS = TrackedOf(FuelWallets)
    /\ wrapped_native_address = "0xwnative"
    /\ fuel_threshold = bnb_to_wei(1)
    /\ fuel_enabled = TRUE
    /\ fuel_amount = bnb_to_wei(1)
    /\ fuel_quote_address = "0xquote"
    /\ auto_fuel_attempts = MapPut(EmptyMap, "0xwa", <<1, StartClock * ClockUnit>>)
    /\ now = StartClock
    /\ fuelLog = <<[wallet |-> "0xwa", session |-> 1, at |-> StartClock * ClockUnit]>>
    /\ lockAt = NoPaths
    /\ PNL_STATE = EmptyMap
    /\ PNL_TASKS = EmptyMap
    /\ pnl_workers = <<>>

\* the router's allowance when run_auto_fuel asks: short, enough
NonceAllowances == {Some(0), Some(bnb_to_wei(1))}

\* start_background_worker: get_transaction_count answers n for wallet w,
\* the answer is stored
WorkerNonce(w, n) ==
    /\ ~SHUTDOWN_FLAG
    /\ ~poisoned
    /\ nonce_map' = MapPut(nonce_map, w, n)
    /\ UNCHANGED <<bridgeVars, SHUTDOWN_FLAG, RPC_POOL, pending_txs, selected_pool_type,
                   selected_pool_address, selected_pool_liquidity_usd,
                   selected_pool_spot_price, v2_reserves, v3_states, wallet_keys,
                   router_address, usd_prices, poisoned, taskVars, histVars>>
    /\ UNCHANGED fuelVars

\* the approve's parallel_broadcast answers: on a hash store nonce + 1 and
\* sleep 3 s
FuelApproveStore(s, ok) ==
    LET b == sessions[s].blocks IN
    /\ b.pc = "fuel_approve"
    /\ IF ok
       THEN FuelApply(s, Bumped(JobAt(b, "fuel_sleep",
                                      <<EvLog("INFO", "auto-fuel approve tx")>>, FALSE)),
                      TRUE)
       ELSE FuelApply(s, Failed_Reported(b, "Approve failed",
                                         <<EvLog("INFO", "auto-fuel approve tx")>>),
                      FALSE)

\* the sleep is over: read the nonce for the swap, sign and broadcast
FuelSleepOver(s) ==
    LET b == sessions[s].blocks IN
    /\ b.pc = "fuel_sleep"
    /\ FuelApply(s, SwapStage(b, <<>>), TRUE)

NextNonce ==
    \/ \E w \in {"0xwa"} : \E n \in TransactionCounts(w) : WorkerNonce(w, n)
    \/ \E t \in Trades : TradeStart(t)
    \/ \E t \in Trades, acc \in AcceptSets(RPC_POOL) : TradeSwapBroadcast(t, acc)
    \/ \E t \in Trades : TradeReturn(t)
    \/ \E s \in Sessions : FuelCall(s)
    \/ \E s \in Sessions : FuelBalanceOf(s, Some(bnb_to_wei(1)))
    \/ \E s \in Sessions, r \in NonceAllowances : FuelAllowance(s, r)
    \/ \E s \in Sessions, ok \in BOOLEAN : FuelApproveStore(s, ok)
    \/ \E s \in Sessions : FuelSleepOver(s)
    \/ \E s \in Sessions, ok \in BOOLEAN : FuelSwapBroadcast(s, ok)

SpecNonce == InitNonce /\ [][NextNonce]_vars

\* C38: two transactions that were both successfully broadcast for the same
\* wallet never carry the same nonce: consecutive swaps of one wallet, and
\* the approve followed by the swap inside one run_auto_fuel call, use
\* strictly increasing nonces in every interleaving with the background
\* nonce poller.
C38_NoncesIncrease ==
    \A i, j \in 1..Len(nonceLog) :
        (i < j /\ nonceLog[i].wallet = nonceLog[j].wallet)
            => nonceLog[i].nonce < nonceLog[j].nonce

\* the same for the approve and the swap of run_auto_fuel alone
C38_FuelNoncesIncrease ==
    \A i, j \in 1..Len(nonceLog) :
        (i < j /\ nonceLog[i].kind = "fuel_approve" /\ nonceLog[j].kind = "fuel_swap")
            => nonceLog[i].nonce < nonceLog[j].nonce

\* what does hold: a broadcast of run_auto_fuel that returned a hash leaves
\* the transaction's nonce + 1 in nonce_map
C38_FuelStoresNext ==
    [][(Len(nonceLog') = Len(nonceLog) + 1
        /\ nonceLog'[Len(nonceLog')].kind \in {"fuel_approve", "fuel_swap", "fuel_withdraw"})
       => nonce_map'[nonceLog'[Len(nonceLog')].wallet]
              = nonceLog'[Len(nonceLog')].nonce + 1]_vars

\* the pool map the selected type points at holds the selected address
SelectedPoolPresent ==
    /\ selected_pool_type = Some("V2") =>
           selected_pool_address.some /\ selected_pool_address.val \in DOMAIN v2_reserves
    /\ selected_pool_type = Some("V3") =>
           selected_pool_address.some /\ selected_pool_address.val \in DOMAIN v3_states

\* C39: in every reachable state, when a pool is selected its state is
\* present: selected type V2 implies the V2 reserve map has an entry for
\* selected_pool_address, and selected type V3 implies the V3 slot map has
\* one; this holds after any sequence of Init, SwitchToken, UnsubscribeToken
\* and monitor updates.
C39_SelectedPoolPresent == SelectedPoolPresent

\* what does hold: with the prefetch's insert and selection taken as one
\* step, every step other than Init's clearing of the maps keeps a selected
\* pool's state present
C39_PresentButForInit ==
    [][(SelectedPoolPresent /\ ~(engine.pc = "init_sleep" /\ engine'.pc = "recv"))
           => SelectedPoolPresent']_vars

(***************************************************************************)
(* The PnL trackers (pnl.rs).  start_pnl_tracker and stop_pnl_tracker are   *)
(* called from Python, one at a time; each worker is a task of the runtime. *)
(* JoinHandle::abort cancels a task at its next await: a task suspended at  *)
(* an await is dropped, a task being polled runs on to its next await.      *)
(***************************************************************************)
\* pnl_worker_task tasks spawned
MaxPnlWorkers == 3

\* unit_amount, 10^18 in the program
UnitAmount == 10

\* str::to_lowercase on the address strings of the model
to_lowercase(str) == IF str = "0xWA" THEN "0xwa" ELSE str

\* format!("{}:{}", wallet_addr.to_lowercase(), token_addr.to_lowercase())
PnlKey(wallet, token) == <<to_lowercase(wallet), to_lowercase(token)>>

\* pnl_percent is kept in whole percent
PnlInfo(pnl_percent, value, cost, loading) ==
    [pnl_percent |-> pnl_percent, current_value_wei |-> value,
     cost_basis_wei |-> cost, is_loading |-> loading]

MapRemove(m, k) == [x \in DOMAIN m \ {k} |-> m[x]]

saturating_sub(a, b) == IF a >= b THEN a - b ELSE 0

\* the value of amount_in at the unit price, after the router's and the
\* DEX's fee
net_value(unit_price, amount_in, pool_type, fee) ==
    LET gross_value == (unit_price * amount_in) \div UnitAmount
        fee_tax == (gross_value * 10) \div 10000
        fee_dex == IF pool_type = "V3" THEN (gross_value * fee) \div 1000000
                   ELSE (gross_value * 25) \div 10000
    IN saturating_sub(saturating_sub(gross_value, fee_tax), fee_dex)

\* ((val - cost) / cost) * 100, zero for a zero cost basis
pnl_percent(val, cost) == IF cost = 0 THEN 0 ELSE ((val - cost) * 100) \div cost

\* what a worker with the arguments of w writes for the unit price
Computed(w, unit_price) ==
    LET v == net_value(unit_price, w.amount_in, w.pool_type, w.fee) IN
    PnlInfo(pnl_percent(v, w.cost_basis), v, w.cost_basis, FALSE)

\* the task as spawned, run to its first await: the loop's head, then the
\* price call
NewWorker(key, amount_in, cost_basis) ==
    [key |-> key, amount_in |-> amount_in, cost_basis |-> cost_basis,
     pool_type |-> "V2", fee |-> 2500,
     pc |-> IF SHUTDOWN_FLAG THEN "done" ELSE "quote", unit_price |-> 0,
     aborted |-> FALSE]

\* JoinHandle::abort on worker h: dropped when it is suspended at an await,
\* marked when it is being polled, nothing when it has finished
Abort(ws, h) ==
    IF ws[h].pc \in {"quote", "sleep"} THEN [ws EXCEPT ![h].pc = "cancelled"]
    ELSE IF ws[h].pc = "write" THEN [ws EXCEPT ![h].aborted = TRUE]
    ELSE ws

\* the rest of the state, which the trackers do not touch
PnlRest == <<bridgeVars, SHUTDOWN_FLAG, RPC_POOL, coreVars, taskVars, histVars,
             TRACKED_WALLETS, wrapped_native_address, fuel_enabled, fuel_threshold,
             fuel_amount, fuel_quote_address, auto_fuel_attempts, now, fuelLog, lockAt>>

\* start_pnl_tracker: nothing for a zero balance; else abort the key's
\* worker, insert the loading entry, spawn the new worker and register it
start_pnl_tracker(wallet, token, balance, cost) ==
    LET key == PnlKey(wallet, token)
        ws == IF key \in DOMAIN PNL_TASKS THEN Abort(pnl_workers, PNL_TASKS[key])
              ELSE pnl_workers
    IN /\ from_str(token).some
       /\ Len(pnl_workers) < MaxPnlWorkers
       /\ IF balance = 0
          THEN UNCHANGED pnlVars
          ELSE /\ PNL_STATE' = MapPut(PNL_STATE, key, PnlInfo(0, 0, cost, TRUE))
               /\ pnl_workers' = Append(ws, NewWorker(key, balance, cost))
               /\ PNL_TASKS' = MapPut(PNL_TASKS, key, Len(pnl_workers) + 1)
       /\ UNCHANGED PnlRest

\* stop_pnl_tracker: abort and forget the key's worker, remove its entry
stop_pnl_tracker(wallet, token) ==
    LET key == PnlKey(wallet, token) IN
    /\ pnl_workers' = IF key \in DOMAIN PNL_TASKS
                      THEN Abort(pnl_workers, PNL_TASKS[key]) ELSE pnl_workers
    /\ PNL_TASKS' = MapRemove(PNL_TASKS, key)
    /\ PNL_STATE' = MapRemove(PNL_STATE, key)
    /\ UNCHANGED PnlRest

\* the price call of worker w answers and the task is polled: on a price it
\* goes on to compute and write, on an error to the sleep
PnlQuoteReturns(w, r) ==
    /\ pnl_workers[w].pc = "quote"
    /\ pnl_workers' = [pnl_workers EXCEPT
                          ![w].pc = IF r.some THEN "write" ELSE "sleep",
                          ![w].unit_price = UnwrapOr(r, 0)]
    /\ UNCHANGED <<PNL_STATE, PNL_TASKS>>
    /\ UNCHANGED PnlRest

\* worker w inserts its entry under the PNL_STATE write lock and reaches
\* the sleep, where an abort takes effect
PnlWrite(w) ==
    LET x == pnl_workers[w] IN
    /\ x.pc = "write"
    /\ PNL_STATE' = MapPut(PNL_STATE, x.key, Computed(x, x.unit_price))
    /\ pnl_workers' = [pnl_workers EXCEPT
                          ![w].pc = IF x.aborted THEN "cancelled" ELSE "sleep"]
    /\ UNCHANGED PNL_TASKS
    /\ UNCHANGED PnlRest

\* the sleep of worker w is over: leave on shutdown, else the next call
PnlWake(w) ==
    /\ pnl_workers[w].pc = "sleep"
    /\ pnl_workers' = [pnl_workers EXCEPT
                          ![w].pc = IF SHUTDOWN_FLAG THEN "done" ELSE "quote"]
    /\ UNCHANGED <<PNL_STATE, PNL_TASKS>>
    /\ UNCHANGED PnlRest

\* the wallet as Python passes it, balances (zero: nothing to track), cost
\* bases, and the unit prices the router answers
PnlWallets == {"0xwa", "0xWA"}
PnlBalances == {0, 100, 200}
PnlCosts == {100, 200}
PnlPrices == {None, Some(10), Some(20)}

\* the engine initialised, no tracker started
InitPnl ==
    /\ InitBridge
    /\ SHUTDOWN_FLAG = FALSE
    /\ RPC_POOL = <<RpcNode("rpc", 100, TRUE, 0)>>
    /\ pending_txs = {}
    /\ selected_pool_type = Some("V2")
    /\ selected_pool_address = Some(ThePool)
    /\ selected_pool_liquidity_usd = 4000
    /\ selected_pool_spot_price = 2
    /\ v2_reserves = MapPut(EmptyMap, ThePool, <<2000, 1000>>)
    /\ v3_states = EmptyMap
    /\ wallet_keys = WalletMap(EmptyMap, SentWallets)
    /\ router_address = "0xrouter"
    /\ usd_prices = EmptyMap
    /\ nonce_map = EmptyMap
    /\ poisoned = FALSE
    /\ engine = [pc |-> "recv", init |-> None, received |-> MaxCmds,
                 rpc_checker |-> NoChecker]
    /\ monitor = [NewMonitor("0xtoken", "0xwnative") EXCEPT
                     !.pc = "connect", !.kind = "V2",
                     !.wallets = TrackedOf(SentWallets), !.attempt = 1]
    /\ sessions = <<>>
    /\ trades = <<>>
    /\ txCount = 0
    /\ epoch = 1
    /\ signedAt = EmptyMap
    /\ bcastLog = <<>>
    /\ nonceLog = <<>>
    /\ lastPoll = None
    /\ lastCmd = Some([kind |-> "Init", bad |-> FALSE])
    /\ TRACKED_WALLETS = TrackedOf(SentWallets)
    /\ wrapped_native_address = "0xwnative"
    /\ fuel_threshold = bnb_to_wei(1)
    /\ fuel_enabled = FALSE
    /\ fuel_amount = bnb_to_wei(1)
    /\ fuel_quote_address = "0xwnative"
    /\ auto_fuel_attempts = EmptyMap
    /\ now = StartClock
    /\ fuelLog = <<>>
    /\ lockAt = NoPaths
    /\ PNL_STATE = EmptyMap
    /\ PNL_TASKS = EmptyMap
    /\ pnl_workers = <<>>

NextPnl ==
    \/ \E wallet \in PnlWallets, balance \in PnlBalances, cost \in PnlCosts :
          start_pnl_tracker(wallet, "0xtoken", balance, cost)
    \/ \E wallet \in PnlWallets : stop_pnl_tracker(wallet, "0xtoken")
    \/ \E w \in 1..MaxPnlWorkers, r \in PnlPrices :
          w <= Len(pnl_workers) /\ PnlQuoteReturns(w, r)
    \/ \E w \in 1..MaxPnlWorkers : w <= Len(pnl_workers) /\ PnlWrite(w)
    \/ \E w \in 1..MaxPnlWorkers : w <= Len(pnl_workers) /\ PnlWake(w)

SpecPnl == InitPnl /\ [][NextPnl]_vars

\* the workers of key that may still write
LiveWorkers(key) ==
    {w \in 1..Len(pnl_workers) :
        pnl_workers[w].key = key /\ pnl_workers[w].pc \in {"quote", "write", "sleep"}}

\* the entry of key is the loading entry of the worker registered for it or
\* a value computed from that worker's balance and cost basis
EntryOfCurrent(key) ==
    LET w == pnl_workers[PNL_TASKS[key]]
        e == PNL_STATE[key]
    IN IF e.is_loading THEN e = PnlInfo(0, 0, w.cost_basis, TRUE)
       ELSE \E r \in PnlPrices : r.some /\ e = Computed(w, r.val)

PnlKeys == {PnlKey(wallet, "0xtoken") : wallet \in PnlWallets}

\* a key without a registered worker has no entry
AbsentAfterStop(key) == key \notin DOMAIN PNL_TASKS => key \notin DOMAIN PNL_STATE

\* the entry of a key with a registered worker is that worker's
KeptAfterRestart(key) ==
    (key \in DOMAIN PNL_TASKS /\ key \in DOMAIN PNL_STATE) => EntryOfCurrent(key)

\* the two parts taken alone
C40_AbsentAfterStop == \A key \in PnlKeys : AbsentAfterStop(key)
C40_KeptAfterRestart == \A key \in PnlKeys : KeptAfterRestart(key)

\* C40: for each wallet:token key at most one PnL worker writes PNL_STATE
\* at a time, and after stop_pnl_tracker (or a restart by
\* start_pnl_tracker) has returned the aborted worker writes nothing more:
\* after stop the key stays absent from PNL_STATE until the next start, and
\* after a restart the loading entry is not overwritten with values
\* computed from the old balance and cost basis.
C40_AbortedWorkerSilent ==
    \A key \in PnlKeys :
        /\ Cardinality(LiveWorkers(key)) <= 1
        /\ AbsentAfterStop(key)
        /\ KeptAfterRestart(key)

\* what does hold: a worker aborted while it was suspended at an await
\* writes nothing more, and a worker aborted while it was being polled
\* writes at most once more: an aborted worker never reaches another await
C40_AbortedStopsAtAwait ==
    \A w \in 1..Len(pnl_workers) :
        LET x == pnl_workers[w] IN
        /\ x.aborted => x.pc \in {"write", "cancelled"}
        /\ (x.key \notin DOMAIN PNL_TASKS \/ PNL_TASKS[x.key] # w)
               => (x.pc \in {"cancelled", "done"} \/ (x.pc = "write" /\ x.aborted))

=============================================================================
